---- MODULE Spec2Model ----
(***************************************************************************)
(* SmartSpend (src/app.py): the expense store behind ExpenseManager, the   *)
(* users table behind UserManager, the st.cache_data cache in front of     *)
(* ExpenseManager.get_user_expenses, the statistics of                     *)
(* ExpenseManager.get_expense_summary, the series of the ChartGenerator    *)
(* charts, the dashboard page that shows them, and the sessions of         *)
(* SessionManager with the script runs of SmartSpendApp.run: login,        *)
(* registration, navigation, logout and the session timeout.               *)
(*                                                                         *)
(* Text values are sequences of one-character strings, so that str.strip() *)
(* and the character tests of the validators are computed, not assumed.    *)
(* Amounts are integers (whole currency units), quotients are kept exact.  *)
(* A calendar date is its day number; date.isoformat() of it is the text   *)
(* naming that day, the form the date column stores, and pd.to_datetime()  *)
(* of that text is a timestamp at time-of-day 0 of the day.  An instant is *)
(* a day number and a time of day, 0 for midnight, counted in half hours.  *)
(* The created_at column of the expenses table is the clock at the insert; *)
(* the updated_at column is not represented.                               *)
(***************************************************************************)
EXTENDS Integers, Sequences, FiniteSets, TLC

\* Bound of the model: how many expense ids are ever issued.
MaxExpenses == 2

----------------------------------------------------------------------------
\* Text helpers

IsSpace(c) == c = " "

RECURSIVE lstrip(_)
lstrip(s) == IF s # <<>> /\ IsSpace(Head(s)) THEN lstrip(Tail(s)) ELSE s

RECURSIVE rstrip(_)
rstrip(s) ==
    IF s # <<>> /\ IsSpace(s[Len(s)]) THEN rstrip(SubSeq(s, 1, Len(s) - 1)) ELSE s

\* str.strip()
strip(s) == rstrip(lstrip(s))

LowerChars == {"a", "b", "c", "d", "e", "f", "g", "h", "i", "j", "k", "l", "m",
               "n", "o", "p", "q", "r", "s", "t", "u", "v", "w", "x", "y", "z"}
UpperChars == {"A", "B", "C", "D", "E", "F", "G", "H", "I", "J", "K", "L", "M",
               "N", "O", "P", "Q", "R", "S", "T", "U", "V", "W", "X", "Y", "Z"}
DigitChars == {"0", "1", "2", "3", "4", "5", "6", "7", "8", "9"}

\* str.replace(ch, '')
RECURSIVE RemoveChar(_, _)
RemoveChar(s, ch) ==
    IF s = <<>> THEN <<>>
    ELSE IF Head(s) = ch THEN RemoveChar(Tail(s), ch)
    ELSE <<Head(s)>> \o RemoveChar(Tail(s), ch)

\* str.isalnum(): non-empty and every character a letter or a digit
isalnum(s) ==
    /\ s # <<>>
    /\ \A i \in 1..Len(s) : s[i] \in LowerChars \cup UpperChars \cup DigitChars

----------------------------------------------------------------------------
\* Configuration and the category enumeration

PASSWORD_MIN_LENGTH == 8

Food == <<"F", "o", "o", "d">>
Transport == <<"T", "r", "a", "n", "s", "p", "o", "r", "t">>
Shopping == <<"S", "h", "o", "p", "p", "i", "n", "g">>
Bills == <<"B", "i", "l", "l", "s">>
Entertainment == <<"E", "n", "t", "e", "r", "t", "a", "i", "n", "m", "e", "n", "t">>
Healthcare == <<"H", "e", "a", "l", "t", "h", "c", "a", "r", "e">>
Education == <<"E", "d", "u", "c", "a", "t", "i", "o", "n">>
Investment == <<"I", "n", "v", "e", "s", "t", "m", "e", "n", "t">>
Other == <<"O", "t", "h", "e", "r">>

\* ExpenseCategory.get_list()
get_list ==
    {Food, Transport, Shopping, Bills, Entertainment, Healthcare, Education,
     Investment, Other}

\* Optional arguments: None, or a supplied value v written Some(v)
None == <<>>
Some(v) == <<v>>

----------------------------------------------------------------------------
\* Result messages

MsgAmount == "Amount must be greater than zero"
MsgCategory == "Invalid category"
MsgAdded == "Expense added successfully!"
MsgAddError == "Error adding expense"
MsgDeleted == "Expense deleted successfully!"
MsgNotFound == "Expense not found or access denied"
MsgDeleteError == "Error deleting expense"
MsgNoUpdates == "No updates provided"
MsgUpdated == "Expense updated successfully!"
MsgUpdateError == "Error updating expense"
MsgUserCreated == "Account created successfully!"
MsgUserExists == "Username already exists"
MsgUsernameShort == "Username must be at least 3 characters"
MsgUsernameChars == "Username can only contain letters, numbers, underscore and hyphen"
MsgPasswordShort == "Password must be at least 8 characters"
MsgPasswordUpper == "Password must contain at least one uppercase letter"
MsgPasswordLower == "Password must contain at least one lowercase letter"
MsgPasswordDigit == "Password must contain at least one number"

----------------------------------------------------------------------------
\* Inputs the operations are exercised with

Procs == {"p1", "p2"}
UserIds == {1, 2}
ExpenseIds == 1..MaxExpenses

Bogus == <<"B", "o", "g", "u", "s">>
PaddedBogus == <<" ">> \o Bogus \o <<" ">>
CategoryInputs == {Food, PaddedBogus}
AmountInputs == {-5, 0, 10}
DateInputs == {1}
DescriptionInputs == {<<" ", "x">>}
NewCategoryInputs == {PaddedBogus}
NewAmountInputs == {0, 20}
NewDateInputs == {2}
NewDescriptionInputs == {<<"y", " ">>}
\* The name the user who gets user_id registers with
RegisterName(user_id) == IF user_id = 1 THEN <<"a", "b", "c">> ELSE <<"a", "_", "b">>

\* Calendar dates are day numbers: day 1 is 2024-12-01.  The day the clock
\* starts on is 2025-01-05.
EpochYear == 2024
EpochMonth == 12
Today == 36

\* What the records behind the dashboard are made of: a category with an
\* amount, and a date 30 days before, 7 days before, or on the day the clock
\* starts on
ReportEntries == {<<Food, 10>>, <<Transport, 20>>}
ReportDates == {Today - 30, Today - 7, Today}

StrongPassword == <<"P", "a", "s", "s", "w", "o", "r", "d", "1">>
WeakPassword == <<"p", "a", "s", "s", "w", "o", "r", "d">>

\* What the register form is filled in with: a name, the same name padded, a
\* name that is too short, another name; a password that passes and one that
\* does not
RegisterNames ==
    {<<"a", "b", "c">>, <<" ", "a", "b", "c", " ">>, <<"a", "b">>, <<"a", "_", "b">>}
RegisterPasswords == {StrongPassword, WeakPassword}

----------------------------------------------------------------------------
VARIABLES
    users,          \* rows of the users table: [id, username]
    nextUserId,     \* AUTOINCREMENT counter of users.id
    expenses,       \* rows of the expenses table
    nextExpenseId,  \* AUTOINCREMENT counter of expenses.id
    cache,          \* st.cache_data entries of get_user_expenses, by user_id
    proc,           \* each caller: where it is, its last call and the result
    owner,          \* history: owner[i] is the user_id expense i was inserted with
    created_at,     \* created_at[i]: the created_at column of expense i
    clock,          \* the current instant: CURRENT_TIMESTAMP, datetime.now()
    view,           \* each caller: what the dashboard on its screen was computed
                    \* as; a session shows one page, the one it rendered last
    credentials,    \* credentials[i]: password_hash and password_salt of user i
    session,        \* each caller: its st.session_state
    shown           \* each caller: what its latest script run has put on the
                    \* screen

vars ==
    <<users, nextUserId, expenses, nextExpenseId, cache, proc, owner, created_at,
      clock, view, credentials, session, shown>>

----------------------------------------------------------------------------
\* SecurityManager

\* validate_username: (is_valid, error_message)
validate_username(username) ==
    IF username = <<>> \/ Len(strip(username)) < 3
    THEN [ok |-> FALSE, msg |-> MsgUsernameShort]
    ELSE IF ~isalnum(RemoveChar(RemoveChar(username, "_"), "-"))
    THEN [ok |-> FALSE, msg |-> MsgUsernameChars]
    ELSE [ok |-> TRUE, msg |-> ""]

\* validate_password_strength: (is_valid, error_message)
validate_password_strength(password) ==
    IF Len(password) < PASSWORD_MIN_LENGTH
    THEN [ok |-> FALSE, msg |-> MsgPasswordShort]
    ELSE IF ~\E i \in 1..Len(password) : password[i] \in UpperChars
    THEN [ok |-> FALSE, msg |-> MsgPasswordUpper]
    ELSE IF ~\E i \in 1..Len(password) : password[i] \in LowerChars
    THEN [ok |-> FALSE, msg |-> MsgPasswordLower]
    ELSE IF ~\E i \in 1..Len(password) : password[i] \in DigitChars
    THEN [ok |-> FALSE, msg |-> MsgPasswordDigit]
    ELSE [ok |-> TRUE, msg |-> ""]

----------------------------------------------------------------------------
\* The schema (DatabaseManager.initialize_schema)

\* Mutant: the username column without UNIQUE
UsersConstraint_not_unique(tbl, row) ==
    Len(row.username) >= 3

\* users: username TEXT UNIQUE NOT NULL, CHECK (LENGTH(username) >= 3)
UsersConstraint(tbl, row) ==
    /\ Len(row.username) >= 3
    /\ \A u \in tbl : u.username # row.username

\* expenses: amount REAL NOT NULL CHECK(amount > 0),
\* FOREIGN KEY (user_id) REFERENCES users(id), enforced by PRAGMA foreign_keys = ON
ExpensesConstraint(usertbl, row) ==
    /\ row.amount > 0
    /\ \E u \in usertbl : u.id = row.user_id

----------------------------------------------------------------------------
\* UserManager.create_user: the result and the users table after the call.
\* dbError: the store raises an sqlite3 error that is no constraint violation.
create_user(tbl, nextId, username, password, dbError) ==
    LET name == strip(username)
        vu == validate_username(name)
        vp == validate_password_strength(password)
        row == [id |-> nextId, username |-> name]
        same == [users |-> tbl, nextUserId |-> nextId]
    IN  IF ~vu.ok THEN [ok |-> FALSE, msg |-> vu.msg] @@ same
        ELSE IF ~vp.ok THEN [ok |-> FALSE, msg |-> vp.msg] @@ same
        ELSE IF dbError
        THEN [ok |-> FALSE, msg |-> "Error creating account"] @@ same
        ELSE IF ~UsersConstraint(tbl, row)
        THEN [ok |-> FALSE, msg |-> MsgUserExists] @@ same
        ELSE [ok |-> TRUE, msg |-> MsgUserCreated,
              users |-> tbl \cup {row}, nextUserId |-> nextId + 1]

----------------------------------------------------------------------------
\* ExpenseManager

\* date.isoformat(): the text 'YYYY-MM-DD' that names the day, as the date
\* column stores it
isoformat(day) == [iso |-> day]

\* Mutant: the amount guard written amount < 0
add_expense_zero_passes(usertbl, tbl, nextId, user_id, category, amount, expense_date, description, dbError) ==
    LET row == [id |-> nextId, user_id |-> user_id, category |-> strip(category),
                amount |-> amount, date |-> isoformat(expense_date),
                description |-> strip(description)]
        same == [expenses |-> tbl, nextExpenseId |-> nextId]
    IN  IF amount < 0 THEN [ok |-> FALSE, msg |-> MsgAmount] @@ same
        ELSE IF category \notin get_list
        THEN [ok |-> FALSE, msg |-> MsgCategory] @@ same
        ELSE IF dbError \/ ~(amount > 0 /\ \E u \in usertbl : u.id = user_id)
        THEN [ok |-> FALSE, msg |-> MsgAddError] @@ same
        ELSE [ok |-> TRUE, msg |-> MsgAdded,
              expenses |-> tbl \cup {row}, nextExpenseId |-> nextId + 1]

\* Mutant: add_expense without its category guard
add_expense_any_category(usertbl, tbl, nextId, user_id, category, amount, expense_date, description, dbError) ==
    LET row == [id |-> nextId, user_id |-> user_id, category |-> strip(category),
                amount |-> amount, date |-> isoformat(expense_date),
                description |-> strip(description)]
        same == [expenses |-> tbl, nextExpenseId |-> nextId]
    IN  IF amount <= 0 THEN [ok |-> FALSE, msg |-> MsgAmount] @@ same
        ELSE IF dbError \/ ~\E u \in usertbl : u.id = user_id
        THEN [ok |-> FALSE, msg |-> MsgAddError] @@ same
        ELSE [ok |-> TRUE, msg |-> MsgAdded,
              expenses |-> tbl \cup {row}, nextExpenseId |-> nextId + 1]

\* Mutant: add_expense without its amount guard, on a table without the CHECK
add_expense_any_amount(usertbl, tbl, nextId, user_id, category, amount, expense_date, description, dbError) ==
    LET row == [id |-> nextId, user_id |-> user_id, category |-> strip(category),
                amount |-> amount, date |-> isoformat(expense_date),
                description |-> strip(description)]
        same == [expenses |-> tbl, nextExpenseId |-> nextId]
    IN  IF category \notin get_list
        THEN [ok |-> FALSE, msg |-> MsgCategory] @@ same
        ELSE IF dbError \/ ~\E u \in usertbl : u.id = user_id
        THEN [ok |-> FALSE, msg |-> MsgAddError] @@ same
        ELSE [ok |-> TRUE, msg |-> MsgAdded,
              expenses |-> tbl \cup {row}, nextExpenseId |-> nextId + 1]

\* add_expense: the result, and the expenses table and id counter after the call
add_expense(usertbl, tbl, nextId, user_id, category, amount, expense_date, description, dbError) ==
    LET row == [id |-> nextId, user_id |-> user_id, category |-> strip(category),
                amount |-> amount, date |-> isoformat(expense_date),
                description |-> strip(description)]
        same == [expenses |-> tbl, nextExpenseId |-> nextId]
    IN  IF amount <= 0 THEN [ok |-> FALSE, msg |-> MsgAmount] @@ same
        ELSE IF category \notin get_list
        THEN [ok |-> FALSE, msg |-> MsgCategory] @@ same
        ELSE IF dbError \/ ~ExpensesConstraint(usertbl, row)
        THEN [ok |-> FALSE, msg |-> MsgAddError] @@ same
        ELSE [ok |-> TRUE, msg |-> MsgAdded,
              expenses |-> tbl \cup {row}, nextExpenseId |-> nextId + 1]

\* Mutant: the WHERE clause without the ownership test
WhereIdOnly(r, expense_id, user_id) == r.id = expense_id

\* WHERE id = ? AND user_id = ?
WhereIdAndUser(r, expense_id, user_id) == r.id = expense_id /\ r.user_id = user_id

\* Mutant: the row count tested with >= 0, so that a DELETE of no row succeeds
delete_expense_always_ok(tbl, expense_id, user_id, dbError) ==
    LET hit == {r \in tbl : r.id = expense_id /\ r.user_id = user_id}
    IN  IF dbError
        THEN [ok |-> FALSE, msg |-> MsgDeleteError, expenses |-> tbl]
        ELSE [ok |-> TRUE, msg |-> MsgDeleted, expenses |-> tbl \ hit]

\* delete_expense: the result and the expenses table after the call
\* Mutant: a delete that tells a record of another owner from a missing one
delete_expense_access_denied(tbl, expense_id, user_id, dbError) ==
    LET hit == {r \in tbl : r.id = expense_id /\ r.user_id = user_id}
    IN  IF dbError
        THEN [ok |-> FALSE, msg |-> MsgDeleteError, expenses |-> tbl]
        ELSE IF hit # {}
        THEN [ok |-> TRUE, msg |-> MsgDeleted, expenses |-> tbl \ hit]
        ELSE IF \E r \in tbl : r.id = expense_id
        THEN [ok |-> FALSE, msg |-> "Access denied", expenses |-> tbl]
        ELSE [ok |-> FALSE, msg |-> MsgNotFound, expenses |-> tbl]

delete_expense(tbl, expense_id, user_id, dbError) ==
    LET hit == {r \in tbl : WhereIdAndUser(r, expense_id, user_id)}
        rowcount == Cardinality(hit)
    IN  IF dbError
        THEN [ok |-> FALSE, msg |-> MsgDeleteError, expenses |-> tbl]
        ELSE IF rowcount > 0
        THEN [ok |-> TRUE, msg |-> MsgDeleted, expenses |-> tbl \ hit]
        ELSE [ok |-> FALSE, msg |-> MsgNotFound, expenses |-> tbl]

\* Mutant: a description that is not supplied is written as the empty text
SetFieldsBlankDescription(r, category, amount, expense_date, description) ==
    [id |-> r.id,
     user_id |-> r.user_id,
     category |-> IF category # None THEN strip(category[1]) ELSE r.category,
     amount |-> IF amount # None THEN amount[1] ELSE r.amount,
     date |-> IF expense_date # None THEN isoformat(expense_date[1]) ELSE r.date,
     description |-> IF description # None THEN strip(description[1]) ELSE <<>>]

\* Mutant: an UPDATE that writes the first supplied field only
SetFieldsFirstOnly(r, category, amount, expense_date, description) ==
    [id |-> r.id,
     user_id |-> r.user_id,
     category |-> IF category # None THEN strip(category[1]) ELSE r.category,
     amount |-> IF category = None /\ amount # None THEN amount[1] ELSE r.amount,
     date |-> IF category = None /\ amount = None /\ expense_date # None
              THEN isoformat(expense_date[1]) ELSE r.date,
     description |-> IF /\ category = None /\ amount = None /\ expense_date = None
                        /\ description # None
                     THEN strip(description[1]) ELSE r.description]

\* The row an UPDATE ... SET writes: the supplied (not None) fields replaced
SetFields(r, category, amount, expense_date, description) ==
    [id |-> r.id,
     user_id |-> r.user_id,
     category |-> IF category # None THEN strip(category[1]) ELSE r.category,
     amount |-> IF amount # None THEN amount[1] ELSE r.amount,
     date |-> IF expense_date # None THEN isoformat(expense_date[1]) ELSE r.date,
     description |-> IF description # None THEN strip(description[1])
                     ELSE r.description]

\* update_expense: the result and the expenses table after the call
update_expense(usertbl, tbl, expense_id, user_id, category, amount, expense_date, description, dbError) ==
    LET hit == {r \in tbl : WhereIdAndUser(r, expense_id, user_id)}
        rowcount == Cardinality(hit)
        written == {SetFields(r, category, amount, expense_date, description) :
                        r \in hit}
        same == [expenses |-> tbl]
    IN  IF amount # None /\ amount[1] <= 0
        THEN [ok |-> FALSE, msg |-> MsgAmount] @@ same
        ELSE IF category = None /\ amount = None /\ expense_date = None
                /\ description = None
        THEN [ok |-> FALSE, msg |-> MsgNoUpdates] @@ same
        ELSE IF dbError \/ \E w \in written : ~ExpensesConstraint(usertbl, w)
        THEN [ok |-> FALSE, msg |-> MsgUpdateError] @@ same
        ELSE IF rowcount > 0
        THEN [ok |-> TRUE, msg |-> MsgUpdated,
              expenses |-> (tbl \ hit) \cup written]
        ELSE [ok |-> FALSE, msg |-> MsgNotFound] @@ same

\* pd.to_datetime of the stored ISO date text: that day at time-of-day 0
to_datetime(text) == [day |-> text.iso, tod |-> 0]

\* An instant a is earlier than an instant b
Before(a, b) == a.day < b.day \/ (a.day = b.day /\ a.tod < b.tod)

\* ORDER BY date DESC, created_at DESC: row a may stand right before row b
OrderByDateCreatedDesc(a, b) ==
    \/ a.date.iso > b.date.iso
    \/ a.date.iso = b.date.iso /\ ~Before(a.created_at, b.created_at)

\* The SELECT of get_user_expenses: the columns id, category, amount, date,
\* description, created_at of the rows of one user, in the order of ORDER BY.
\* Rows equal in date and created_at come in an order SQL leaves open: the
\* value is the set of the row sequences the statement can return.
SelectUserExpenses(tbl, created, user_id) ==
    LET rows == {[id |-> r.id, category |-> r.category, amount |-> r.amount,
                  date |-> r.date, description |-> r.description,
                  created_at |-> created[r.id]] :
                    r \in {x \in tbl : x.user_id = user_id}}
        n == Cardinality(rows)
    IN  {s \in [1..n -> rows] :
            /\ \A i \in 1..n, j \in 1..n : i # j => s[i] # s[j]
            /\ \A i \in 1..(n - 1) : OrderByDateCreatedDesc(s[i], s[i + 1])}

\* get_user_expenses behind @st.cache_data(ttl=300): an entry of the cache
\* answers the call; otherwise the SELECT runs (selected is what it returns),
\* the date column is converted by pd.to_datetime and the result is stored.  On
\* a store error the result is an empty DataFrame, and that is what is stored.
get_user_expenses(entries, selected, user_id, dbError) ==
    IF entries[user_id].valid
    THEN [rows |-> entries[user_id].rows, cache |-> entries]
    ELSE LET df == IF dbError THEN <<>>
                   ELSE [i \in 1..Len(selected) |->
                            [selected[i] EXCEPT !.date = to_datetime(@)]]
         IN  [rows |-> df,
              cache |-> [entries EXCEPT ![user_id] = [valid |-> TRUE, rows |-> df]]]

----------------------------------------------------------------------------
\* pandas and datetime, as far as the summary and the chart series use them

\* The characters of the model in code-point order, by which text is compared
Chars ==
    <<" ", "-", "0", "1", "2", "3", "4", "5", "6", "7", "8", "9",
      "A", "B", "C", "D", "E", "F", "G", "H", "I", "J", "K", "L", "M",
      "N", "O", "P", "Q", "R", "S", "T", "U", "V", "W", "X", "Y", "Z", "_",
      "a", "b", "c", "d", "e", "f", "g", "h", "i", "j", "k", "l", "m",
      "n", "o", "p", "q", "r", "s", "t", "u", "v", "w", "x", "y", "z">>
Ord(c) == CHOOSE i \in 1..Len(Chars) : Chars[i] = c

\* a < b for texts a and b
RECURSIVE StrLess(_, _)
StrLess(a, b) ==
    IF b = <<>> THEN FALSE
    ELSE IF a = <<>> THEN TRUE
    ELSE IF Head(a) = Head(b) THEN StrLess(Tail(a), Tail(b))
    ELSE Ord(Head(a)) < Ord(Head(b))

\* Days of a month of the Gregorian calendar
IsLeap(year) == (year % 4 = 0 /\ year % 100 # 0) \/ year % 400 = 0
DaysInMonth(year, month) ==
    IF month = 2 THEN (IF IsLeap(year) THEN 29 ELSE 28)
    ELSE IF month \in {4, 6, 9, 11} THEN 30
    ELSE 31

\* The year and month of the day that is the day-th day counted from the first
\* day of the given month
RECURSIVE YearMonthFrom(_, _, _)
YearMonthFrom(day, year, month) ==
    IF day <= DaysInMonth(year, month) THEN [year |-> year, month |-> month]
    ELSE YearMonthFrom(day - DaysInMonth(year, month),
                       IF month = 12 THEN year + 1 ELSE year,
                       IF month = 12 THEN 1 ELSE month + 1)

\* Timestamp.year and .month; Series.dt.to_period('M')
to_period_M(ts) == YearMonthFrom(ts.day, EpochYear, EpochMonth)

\* Mutant: periods ordered by their month alone
PeriodLess_by_month(a, b) == a.month < b.month

\* Period a is before period b
PeriodLess(a, b) == a.year < b.year \/ (a.year = b.year /\ a.month < b.month)

\* instant - timedelta(days = n)
MinusDays(instant, n) == [day |-> instant.day - n, tod |-> instant.tod]

\* Series.sum() of the amount column; 0 for no rows
RECURSIVE SumAmount(_)
SumAmount(df) == IF df = <<>> THEN 0 ELSE Head(df).amount + SumAmount(Tail(df))

\* Mutant: the amount of the first row instead of the largest
MaxAmount_first(df) == df[1].amount

\* Series.max() of the amount column of a frame with rows
MaxAmount(df) ==
    CHOOSE a \in {df[i].amount : i \in DOMAIN df} :
        \A i \in DOMAIN df : df[i].amount <= a

\* A quotient kept exact: float(x / y)
Quotient(x, y) == [num |-> x, den |-> y]
Zero == [num |-> 0, den |-> 1]

\* Series.mode() of the category column: the values that occur most often, in
\* sorted order; its element 0
Occurrences(df, category) == Cardinality({i \in DOMAIN df : df[i].category = category})
mode(df) ==
    {df[i].category : i \in {j \in DOMAIN df :
        \A k \in DOMAIN df :
            Occurrences(df, df[k].category) <= Occurrences(df, df[j].category)}}
mode_iloc_0(df) == CHOOSE c \in mode(df) : \A d \in mode(df) \ {c} : StrLess(c, d)

\* Mutant: the mask of a trailing window inverted
last_n_days_inverted(df, today, n) ==
    LET Outside(r) == Before(r.date, MinusDays(today, n))
    IN  SumAmount(SelectSeq(df, Outside))

\* Mutant: the window of 7 days taken from a clock read again, a day later
last_n_days_clock_read_again(df, today, n) ==
    LET later == IF n = 7 THEN [day |-> today.day + 1, tod |-> today.tod] ELSE today
        InWindow(r) == ~Before(r.date, MinusDays(later, n))
    IN  SumAmount(SelectSeq(df, InWindow))

\* df[df['date'] >= today - timedelta(days = n)]['amount'].sum(): the total of
\* the rows in the trailing window of n days
last_n_days(df, today, n) ==
    LET InWindow(r) == ~Before(r.date, MinusDays(today, n))
    IN  SumAmount(SelectSeq(df, InWindow))

\* Mutant: the total of the 30 days spread over a week
daily_average_over_week(last_30_days) == Quotient(last_30_days, 7)

\* float(last_30_days / 30) if last_30_days > 0 else 0.0
daily_average(last_30_days) ==
    IF last_30_days > 0 THEN Quotient(last_30_days, 30) ELSE Zero

\* The ExpenseSummary get_expense_summary builds of a DataFrame with rows, given
\* the value of datetime.now()
ExpenseSummary(df, today) ==
    LET InMonth(r) == /\ to_period_M(r.date).month = to_period_M(today).month
                      /\ to_period_M(r.date).year = to_period_M(today).year
        last_30_days == last_n_days(df, today, 30)
    IN  [total_expenses |-> SumAmount(df),
         average_expense |-> Quotient(SumAmount(df), Len(df)),
         expense_count |-> Len(df),
         top_category |-> mode_iloc_0(df),
         largest_expense |-> MaxAmount(df),
         monthly_expenses |-> SumAmount(SelectSeq(df, InMonth)),
         last_30_days |-> last_30_days,
         last_7_days |-> last_n_days(df, today, 7),
         daily_average |-> daily_average(last_30_days)]

\* Mutant: a summary of zeros for a DataFrame without rows
get_expense_summary_zeroed(df, today) ==
    IF df = <<>>
    THEN Some([total_expenses |-> 0, average_expense |-> Zero, expense_count |-> 0,
               top_category |-> <<"N", "/", "A">>, largest_expense |-> 0,
               monthly_expenses |-> 0, last_30_days |-> 0, last_7_days |-> 0,
               daily_average |-> Zero])
    ELSE Some(ExpenseSummary(df, today))

\* get_expense_summary, given the DataFrame get_user_expenses returned to it and
\* the value of datetime.now(): None for a DataFrame without rows
get_expense_summary(df, today) ==
    IF df = <<>> THEN None ELSE Some(ExpenseSummary(df, today))

\* The permutations of 1..n
Perms(n) == {f \in [1..n -> 1..n] : \A i \in 1..n, j \in 1..n : i # j => f[i] # f[j]}

\* DataFrame.sort_values(by, ascending), by[i] being the value row i has in
\* the column sorted by: the rows in an order in which every row is followed by
\* one that comes no earlier by that value.  The sort is quicksort,
\* which promises no order among rows of equal key: the value is the set of the
\* orders it can leave.
sort_values(df, by, ascending) ==
    {[i \in 1..Len(df) |-> df[f[i]]] :
        f \in {g \in Perms(Len(df)) :
                 \A i \in 1..(Len(df) - 1) :
                     IF ascending THEN by[g[i]] <= by[g[i + 1]]
                     ELSE by[g[i]] >= by[g[i + 1]]}}

\* Mutant: a running total that starts again at every row
cumsum_restarting(df, before) ==
    [i \in DOMAIN df |->
        [id |-> df[i].id, date |-> df[i].date, amount |-> df[i].amount,
         cumulative_amount |-> before + df[i].amount]]

\* Series.cumsum() of the amount column, added to the rows
RECURSIVE cumsum(_, _)
cumsum(df, before) ==
    IF df = <<>> THEN <<>>
    ELSE <<[id |-> Head(df).id, date |-> Head(df).date, amount |-> Head(df).amount,
            cumulative_amount |-> before + Head(df).amount]>>
         \o cumsum(Tail(df), before + Head(df).amount)

\* create_spending_timeline: the rows by ascending date, each with the running
\* total; the set of the timelines the sort can give, {} for None
create_spending_timeline(df) ==
    IF df = <<>> THEN {}
    ELSE LET date == [i \in DOMAIN df |-> df[i].date.day]
         IN  {cumsum(df_sorted, 0) : df_sorted \in sort_values(df, date, TRUE)}

\* DataFrame.groupby(key): the keys present, each once, in ascending order
\* (groupby sorts its keys; no two of them are equal), less being the pairs of
\* keys of which the first is before the second
group_keys(keys, less) ==
    CHOOSE s \in [1..Cardinality(keys) -> keys] :
        /\ \A i \in DOMAIN s, j \in DOMAIN s : i < j => <<s[i], s[j]>> \in less
        /\ \A k \in keys : \E i \in DOMAIN s : s[i] = k

\* create_monthly_trend_chart: per calendar month the sum of the amounts and
\* the count of the ids, by ascending month; <<>> for None
create_monthly_trend_chart(df) ==
    IF df = <<>> THEN <<>>
    ELSE LET Month(r) == to_period_M(r.date)
             present == {Month(df[i]) : i \in DOMAIN df}
             months == group_keys(present,
                           {m \in present \X present : PeriodLess(m[1], m[2])})
         IN  [i \in DOMAIN months |->
                LET InGroup(r) == Month(r) = months[i]
                IN  [date |-> months[i],
                     amount |-> SumAmount(SelectSeq(df, InGroup)),
                     id |-> Len(SelectSeq(df, InGroup))]]

\* groupby('category')['amount'].sum().reset_index()
category_totals(df) ==
    LET present == {df[i].category : i \in DOMAIN df}
        categories == group_keys(present,
                          {c \in present \X present : StrLess(c[1], c[2])})
    IN  [i \in DOMAIN categories |->
            LET InGroup(r) == r.category = categories[i]
            IN  [category |-> categories[i],
                 amount |-> SumAmount(SelectSeq(df, InGroup))]]

\* create_category_pie_chart: the category totals by descending amount; the
\* set of the series the sort can give, {} for None
create_category_pie_chart(df) ==
    IF df = <<>> THEN {}
    ELSE LET totals == category_totals(df)
             amount == [i \in DOMAIN totals |-> totals[i].amount]
         IN  sort_values(totals, amount, FALSE)

\* Mutant: the bar chart in the order of the pie chart
create_category_bar_chart_descending(df) ==
    IF df = <<>> THEN {}
    ELSE LET totals == category_totals(df)
             amount == [i \in DOMAIN totals |-> totals[i].amount]
         IN  sort_values(totals, amount, FALSE)

\* create_category_bar_chart: the category totals by ascending amount
create_category_bar_chart(df) ==
    IF df = <<>> THEN {}
    ELSE LET totals == category_totals(df)
             amount == [i \in DOMAIN totals |-> totals[i].amount]
         IN  sort_values(totals, amount, TRUE)

\* Mutant: the daily series of all the rows, whatever their date
create_daily_expense_chart_unbounded(df, now) ==
    LET present == {df[i].date.day : i \in DOMAIN df}
        days == group_keys(present, {d \in present \X present : d[1] < d[2]})
    IN  [i \in DOMAIN days |->
            LET InGroup(r) == r.date.day = days[i]
            IN  [date |-> days[i], amount |-> SumAmount(SelectSeq(df, InGroup))]]

\* create_daily_expense_chart(df, days = 30), given the value of
\* datetime.now(): per calendar day of the rows dated at or after now - 30 days
\* the sum of the amounts, by ascending day; <<>> for None
create_daily_expense_chart(df, now) ==
    LET Recent(r) == ~Before(r.date, MinusDays(now, 30))
        recent_expenses == SelectSeq(df, Recent)
        present == {recent_expenses[i].date.day : i \in DOMAIN recent_expenses}
        days == group_keys(present, {d \in present \X present : d[1] < d[2]})
    IN  IF recent_expenses = <<>> THEN <<>>
        ELSE [i \in DOMAIN days |->
                LET InGroup(r) == r.date.day = days[i]
                IN  [date |-> days[i],
                     amount |-> SumAmount(SelectSeq(recent_expenses, InGroup))]]

----------------------------------------------------------------------------
\* SecurityManager, UserManager.authenticate_user

\* secrets.token_hex: the salts generate_salt can return.  No property depends
\* on which one it is.
Salts == {<<"5", "e">>}

\* SHA-256 of the password followed by the salt, taken to be free of
\* collisions
hash_password(password, salt) == [sha256 |-> password \o salt]

verify_password(password, password_hash, salt) ==
    hash_password(password, salt) = password_hash

\* authenticate_user: the id of the user with the stripped username whose
\* stored hash the password gives, None otherwise.  is_active is 1 for every
\* user, no statement of the program changes it.
authenticate_user(usertbl, creds, username, password, dbError) ==
    LET found == {u \in usertbl : u.username = strip(username)}
        user == CHOOSE u \in found : TRUE
    IN  IF dbError \/ found = {} THEN None
        ELSE IF verify_password(password, creds[user.id].password_hash,
                                creds[user.id].password_salt)
        THEN Some(user.id)
        ELSE None

----------------------------------------------------------------------------
\* SessionManager

SESSION_TIMEOUT_MINUTES == 30

\* The minutes from instant a to instant b; a unit of the time of day is half
\* an hour
MinutesPerDay == 1440
MinutesPerTod == 30
Elapsed(a, b) == (b.day - a.day) * MinutesPerDay + (b.tod - a.tod) * MinutesPerTod

\* SessionManager.initialize on the first run of a session
initialize(now) ==
    [page |-> "Dashboard", user_id |-> None, username |-> None,
     show_login |-> TRUE, show_register |-> FALSE, last_activity |-> now]

is_authenticated(s) == s.user_id # None

\* Mutant: logout that leaves the user in the session
logout_keeps_user(s) ==
    [s EXCEPT !.show_login = TRUE, !.page = "Dashboard"]

\* SessionManager.logout
logout(s) ==
    [s EXCEPT !.user_id = None, !.username = None, !.show_login = TRUE,
              !.page = "Dashboard"]

\* Mutant: the comparison written >=
check_session_timeout_at_limit(s, now) ==
    IF is_authenticated(s) /\ Elapsed(s.last_activity, now) >= SESSION_TIMEOUT_MINUTES
    THEN [timed_out |-> TRUE, session |-> logout(s)]
    ELSE [timed_out |-> FALSE, session |-> s]

\* check_session_timeout: whether the session has timed out, and the session
\* state it leaves
check_session_timeout(s, now) ==
    IF /\ is_authenticated(s)
       /\ Elapsed(s.last_activity, now) > SESSION_TIMEOUT_MINUTES
    THEN [timed_out |-> TRUE, session |-> logout(s)]
    ELSE [timed_out |-> FALSE, session |-> s]

update_activity(s, now) == [s EXCEPT !.last_activity = now]

----------------------------------------------------------------------------
\* The state after construction: an empty database, an empty cache, no call made

Idle ==
    [pc |-> "idle", op |-> "none", expense_id |-> 0, user_id |-> 0, ok |-> FALSE,
     msg |-> "none", present |-> FALSE, page |-> FALSE]

\* The instants the clock shows, in order: midnight of a day, half an hour
\* later, and the same time of the next day
Instants ==
    <<[day |-> Today, tod |-> 0], [day |-> Today, tod |-> 1],
      [day |-> Today + 1, tod |-> 1]>>

\* No dashboard rendered
NoView == [rendered |-> FALSE]

NoEntry == [valid |-> FALSE, rows |-> <<>>]

Init ==
    /\ users = {}
    /\ nextUserId = 1
    /\ expenses = {}
    /\ nextExpenseId = 1
    /\ cache = [u \in UserIds |-> NoEntry]
    /\ proc = [p \in Procs |-> Idle]
    /\ owner = <<>>
    /\ created_at = <<>>
    /\ clock = Instants[1]
    /\ view = [p \in Procs |-> NoView]
    /\ credentials = <<>>
    /\ session = [p \in Procs |-> initialize(Instants[1])]
    /\ shown = [p \in Procs |-> "none"]

\* Where a caller goes once add_expense / delete_expense has returned: the pages
\* (AddExpensePage.render, DeleteExpensePage.render) call st.cache_data.clear()
\* after a success; any other caller is done.
AfterCall(page, ok) == IF page /\ ok THEN "clear" ELSE "idle"

----------------------------------------------------------------------------
\* Operations

\* The credentials columns after a create_user call with the given result
Stored(res, password, salt) ==
    IF res.ok
    THEN Append(credentials, [password_hash |-> hash_password(password, salt),
                              password_salt |-> salt])
    ELSE credentials

CreateUser(username, password, dbError) ==
    /\ nextUserId \in UserIds
    /\ \E salt \in Salts :
        LET res == create_user(users, nextUserId, username, password, dbError)
        IN  /\ users' = res.users
            /\ nextUserId' = res.nextUserId
            /\ credentials' = Stored(res, password, salt)
    /\ UNCHANGED <<expenses, nextExpenseId, cache, proc, owner, created_at,
                   clock, view, session, shown>>

AddExpense(p, user_id, category, amount, expense_date, description, page, dbError) ==
    /\ proc[p].pc = "idle"
    /\ nextExpenseId <= MaxExpenses
    /\ LET res == add_expense(users, expenses, nextExpenseId, user_id, category,
                              amount, expense_date, description, dbError)
       IN  /\ expenses' = res.expenses
           /\ nextExpenseId' = res.nextExpenseId
           /\ owner' = IF res.ok THEN Append(owner, user_id) ELSE owner
           /\ created_at' = IF res.ok THEN Append(created_at, clock) ELSE created_at
           /\ view' = IF page THEN [view EXCEPT ![p] = NoView] ELSE view
           /\ proc' = [proc EXCEPT ![p] =
                  [pc |-> AfterCall(page, res.ok), op |-> "add", expense_id |-> 0,
                   user_id |-> user_id, ok |-> res.ok, msg |-> res.msg,
                   present |-> FALSE, page |-> FALSE]]
    /\ UNCHANGED <<users, nextUserId, cache, clock, credentials, session,
                   shown>>

\* A delete_expense request is made; its DELETE statement has not run yet
DeleteCall(p, expense_id, user_id, page) ==
    /\ proc[p].pc = "idle"
    /\ proc' = [proc EXCEPT ![p] =
           [pc |-> "called", op |-> "delete", expense_id |-> expense_id,
            user_id |-> user_id, ok |-> FALSE, msg |-> "none",
            present |-> \E r \in expenses : WhereIdAndUser(r, expense_id, user_id),
            page |-> page]]
    /\ UNCHANGED <<users, nextUserId, expenses, nextExpenseId, cache, owner,
                   created_at, clock, view, credentials, session, shown>>

\* The DELETE statement of a delete_expense call and its commit run, and the
\* result is returned: of a request made before, or of one made now
DeleteExpense(p, expense_id, user_id, page, dbError) ==
    /\ \/ proc[p].pc = "idle"
       \/ /\ proc[p].pc = "called"
          /\ proc[p].op = "delete"
          /\ proc[p].expense_id = expense_id
          /\ proc[p].user_id = user_id
          /\ proc[p].page = page
    /\ LET res == delete_expense(expenses, expense_id, user_id, dbError)
       IN  /\ expenses' = res.expenses
           /\ proc' = [proc EXCEPT ![p] =
                  [pc |-> AfterCall(page, res.ok), op |-> "delete",
                   expense_id |-> expense_id, user_id |-> user_id,
                   ok |-> res.ok, msg |-> res.msg,
                   present |-> proc[p].pc = "called" /\ proc[p].present,
                   page |-> FALSE]]
    /\ view' = IF page THEN [view EXCEPT ![p] = NoView] ELSE view
    /\ UNCHANGED <<users, nextUserId, nextExpenseId, cache, owner, created_at,
                   clock, credentials, session, shown>>

\* An update_expense request is made; its UPDATE statement has not run yet
UpdateCall(p, expense_id, user_id) ==
    /\ proc[p].pc = "idle"
    /\ proc' = [proc EXCEPT ![p] =
           [pc |-> "called", op |-> "update", expense_id |-> expense_id,
            user_id |-> user_id, ok |-> FALSE, msg |-> "none",
            present |-> \E r \in expenses : WhereIdAndUser(r, expense_id, user_id),
            page |-> FALSE]]
    /\ UNCHANGED <<users, nextUserId, expenses, nextExpenseId, cache, owner,
                   created_at, clock, view, credentials, session, shown>>

\* The checks, the UPDATE statement and the commit of an update_expense call
\* run, and the result is returned: of a request made before, or of one made
\* now
UpdateExpense(p, expense_id, user_id, category, amount, expense_date, description, dbError) ==
    /\ \/ proc[p].pc = "idle"
       \/ /\ proc[p].pc = "called"
          /\ proc[p].op = "update"
          /\ proc[p].expense_id = expense_id
          /\ proc[p].user_id = user_id
    /\ LET res == update_expense(users, expenses, expense_id, user_id, category,
                                 amount, expense_date, description, dbError)
       IN  /\ expenses' = res.expenses
           /\ proc' = [proc EXCEPT ![p] =
                  [pc |-> "idle", op |-> "update", expense_id |-> expense_id,
                   user_id |-> user_id, ok |-> res.ok, msg |-> res.msg,
                   present |-> proc[p].pc = "called" /\ proc[p].present,
                   page |-> FALSE]]
    /\ UNCHANGED <<users, nextUserId, nextExpenseId, cache, owner, created_at,
                   clock, view, credentials, session, shown>>

\* What the SELECT of a get_user_expenses call can return: it runs only when the
\* cache holds no entry for the user
Selected(user_id) ==
    IF cache[user_id].valid THEN {<<>>}
    ELSE SelectUserExpenses(expenses, created_at, user_id)

GetUserExpenses(p, user_id, dbError) ==
    /\ proc[p].pc = "idle"
    /\ \E selected \in Selected(user_id) :
           cache' = get_user_expenses(cache, selected, user_id, dbError).cache
    /\ proc' = [proc EXCEPT ![p] =
           [pc |-> "idle", op |-> "list", expense_id |-> 0,
            user_id |-> user_id, ok |-> TRUE, msg |-> "none",
            present |-> FALSE, page |-> FALSE]]
    /\ UNCHANGED <<users, nextUserId, expenses, nextExpenseId, owner,
                   created_at, clock, view, credentials, session, shown>>

\* st.cache_data.clear() after a successful add or delete made from a page
CacheClear(p) ==
    /\ proc[p].pc = "clear"
    /\ cache' = [u \in UserIds |-> NoEntry]
    /\ proc' = [proc EXCEPT ![p].pc = "idle"]
    /\ UNCHANGED <<users, nextUserId, expenses, nextExpenseId, owner,
                   created_at, clock, view, credentials, session, shown>>

\* ttl=300: an entry older than 300 seconds is dropped
CacheExpire(user_id) ==
    /\ cache[user_id].valid
    /\ cache' = [cache EXCEPT ![user_id] = NoEntry]
    /\ UNCHANGED <<users, nextUserId, expenses, nextExpenseId, proc, owner,
                   created_at, clock, view, credentials, session, shown>>

\* Time passes: the clock shows its next instant
Tick ==
    /\ \E i \in 1..(Len(Instants) - 1) : clock = Instants[i] /\ clock' = Instants[i + 1]
    /\ UNCHANGED <<users, nextUserId, expenses, nextExpenseId, cache, proc,
                   owner, created_at, view, credentials, session, shown>>

\* What DashboardPage.render puts on the screen, given the DataFrame, the
\* summary and the value of datetime.now() in create_daily_expense_chart: the
\* metrics and the five charts when there is a summary and the DataFrame has
\* rows, the welcome box otherwise.  The set of the screens the sorts can give.
render(user_id, df, summary, now) ==
    IF summary # None /\ df # <<>>
    THEN {[rendered |-> TRUE, user_id |-> user_id, now |-> now, df |-> df,
           summary |-> summary,
           monthly |-> Some(create_monthly_trend_chart(df)),
           pie |-> Some(pie), bar |-> Some(bar),
           daily |-> Some(create_daily_expense_chart(df, now)),
           timeline |-> Some(timeline)] :
             pie \in create_category_pie_chart(df),
             bar \in create_category_bar_chart(df),
             timeline \in create_spending_timeline(df)}
    ELSE {[rendered |-> TRUE, user_id |-> user_id, now |-> now, df |-> df,
           summary |-> summary, monthly |-> None, pie |-> None, bar |-> None,
           daily |-> None, timeline |-> None]}

\* DashboardPage.render: the DataFrame of get_user_expenses, the summary of
\* get_expense_summary, which asks get_user_expenses again and reads the clock,
\* and the screen made of them
DashboardRender(p, user_id, dbError) ==
    /\ proc[p].pc = "idle"
    /\ \E selected \in Selected(user_id) :
        LET first == get_user_expenses(cache, selected, user_id, dbError)
            second == get_user_expenses(first.cache, selected, user_id, dbError)
        IN  /\ cache' = second.cache
            /\ \E screen \in render(user_id, first.rows,
                                    get_expense_summary(second.rows, clock), clock) :
                   view' = [view EXCEPT ![p] = screen]
    /\ proc' = [proc EXCEPT ![p] =
           [pc |-> "idle", op |-> "dashboard", expense_id |-> 0,
            user_id |-> user_id, ok |-> TRUE, msg |-> "none",
            present |-> FALSE, page |-> FALSE]]
    /\ UNCHANGED <<users, nextUserId, expenses, nextExpenseId, owner,
                   created_at, clock, credentials, session, shown>>

\* The first statement of DashboardPage.render on its own, for the runs in
\* which other sessions act while the page is rendered:
\* df = get_user_expenses(user_id)
DashboardFetch(p, user_id, dbError) ==
    /\ proc[p].pc = "idle"
    /\ \E selected \in Selected(user_id) :
        LET first == get_user_expenses(cache, selected, user_id, dbError)
        IN  /\ cache' = first.cache
            /\ view' = [view EXCEPT ![p] =
                   [rendered |-> FALSE, user_id |-> user_id, df |-> first.rows]]
    /\ proc' = [proc EXCEPT ![p] =
           [pc |-> "fetched", op |-> "dashboard", expense_id |-> 0,
            user_id |-> user_id, ok |-> TRUE, msg |-> "none",
            present |-> FALSE, page |-> FALSE]]
    /\ UNCHANGED <<users, nextUserId, expenses, nextExpenseId, owner,
                   created_at, clock, credentials, session, shown>>

\* The rest of DashboardPage.render: summary = get_expense_summary(user_id),
\* which asks get_user_expenses again and reads the clock, and the screen made
\* of the DataFrame fetched before and of that summary
DashboardSummary(p, dbError) ==
    /\ proc[p].pc = "fetched"
    /\ \E selected \in Selected(view[p].user_id) :
        LET second == get_user_expenses(cache, selected, view[p].user_id, dbError)
        IN  /\ cache' = second.cache
            /\ \E screen \in render(view[p].user_id, view[p].df,
                                    get_expense_summary(second.rows, clock), clock) :
                   view' = [view EXCEPT ![p] = screen]
    /\ proc' = [proc EXCEPT ![p].pc = "idle"]
    /\ UNCHANGED <<users, nextUserId, expenses, nextExpenseId, owner,
                   created_at, clock, credentials, session, shown>>

----------------------------------------------------------------------------
\* Script runs of a session: SmartSpendApp.run with the widget event that
\* started the run.  A run ends at the end of the script or at st.rerun(), after
\* which the script runs again without an event.

\* The head of SmartSpendApp.run: the session has timed out and is logged out
\* (the run ends at st.rerun()), or it has not and its activity is updated
run_start(s, now) ==
    LET timeout == check_session_timeout(s, now)
    IN  [expired |-> timeout.timed_out,
         session |-> IF timeout.timed_out THEN timeout.session
                     ELSE update_activity(timeout.session, now)]

\* The session of p once the head of the run is through, and its user
Started(p) == run_start(session[p], clock)
User(p) == Started(p).session.user_id[1]

\* The run reaches the login form, the register form, the navigation bar
AtLoginForm(p) ==
    /\ proc[p].pc = "idle"
    /\ ~Started(p).expired
    /\ ~is_authenticated(Started(p).session)
    /\ ~Started(p).session.show_register
AtRegisterForm(p) ==
    /\ proc[p].pc = "idle"
    /\ ~Started(p).expired
    /\ ~is_authenticated(Started(p).session)
    /\ Started(p).session.show_register
AtNavigation(p) ==
    /\ proc[p].pc = "idle"
    /\ ~Started(p).expired
    /\ is_authenticated(Started(p).session)

\* What a call leaves in proc
Called(op, user_id, expense_id, ok, msg, pc) ==
    [pc |-> pc, op |-> op, expense_id |-> expense_id, user_id |-> user_id,
     ok |-> ok, msg |-> msg, present |-> FALSE, page |-> FALSE]

\* A run without an event, or one whose event is lost because the session has
\* timed out: the timed out session is logged out and warned that it has
\* expired, and the script runs again; the session that is not
\* authenticated gets the authentication page; the authenticated one gets the
\* navigation bar and its page, whose render fetches what it shows.
Open(p, dbError) ==
    /\ proc[p].pc = "idle"
    /\ session' = [session EXCEPT ![p] = Started(p).session]
    /\ IF Started(p).expired
       THEN /\ shown' = [shown EXCEPT ![p] = "Session expired"]
            /\ view' = [view EXCEPT ![p] = NoView]
            /\ UNCHANGED <<cache, proc>>
       ELSE IF ~is_authenticated(Started(p).session)
       THEN /\ shown' = [shown EXCEPT ![p] =
                   IF Started(p).session.show_register THEN "register" ELSE "login"]
            /\ view' = [view EXCEPT ![p] = NoView]
            /\ UNCHANGED <<cache, proc>>
       ELSE IF Started(p).session.page = "Add Expense"
       THEN /\ shown' = [shown EXCEPT ![p] = "Add Expense"]
            /\ view' = [view EXCEPT ![p] = NoView]
            /\ UNCHANGED <<cache, proc>>
       ELSE IF Started(p).session.page \in {"View All", "Delete Expense"}
       THEN /\ shown' = [shown EXCEPT ![p] = Started(p).session.page]
            /\ view' = [view EXCEPT ![p] = NoView]
            /\ \E selected \in Selected(User(p)) :
                   cache' = get_user_expenses(cache, selected, User(p), dbError).cache
            /\ proc' = [proc EXCEPT ![p] =
                   Called("list", User(p), 0, TRUE, "none", "idle")]
       ELSE /\ shown' = [shown EXCEPT ![p] = "Dashboard"]
            /\ \E selected \in Selected(User(p)) :
                LET first == get_user_expenses(cache, selected, User(p), dbError)
                    second == get_user_expenses(first.cache, selected, User(p), dbError)
                IN  /\ cache' = second.cache
                    /\ \E screen \in render(User(p), first.rows,
                                            get_expense_summary(second.rows, clock),
                                            clock) :
                           view' = [view EXCEPT ![p] = screen]
            /\ proc' = [proc EXCEPT ![p] =
                   Called("dashboard", User(p), 0, TRUE, "none", "idle")]
    /\ UNCHANGED <<users, nextUserId, expenses, nextExpenseId, owner,
                   created_at, clock, credentials>>

\* AuthPage.render_login_form, the Login button: a user_id from
\* authenticate_user is put in the session and the script runs again
Login(p, username, password, dbError) ==
    /\ AtLoginForm(p)
    /\ LET user_id == IF username # <<>> /\ password # <<>>
                      THEN authenticate_user(users, credentials, username,
                                             password, dbError)
                      ELSE None
       IN  /\ session' = [session EXCEPT ![p] =
                  IF user_id # None
                  THEN update_activity(
                           [Started(p).session EXCEPT !.user_id = user_id,
                                                      !.username = Some(username),
                                                      !.show_login = FALSE],
                           clock)
                  ELSE Started(p).session]
           /\ shown' = [shown EXCEPT ![p] = IF user_id # None THEN "rerun" ELSE "login"]
           /\ proc' = [proc EXCEPT ![p] =
                  Called("login", IF user_id # None THEN user_id[1] ELSE 0, 0,
                         user_id # None, "none", "idle")]
    /\ view' = [view EXCEPT ![p] = NoView]
    /\ UNCHANGED <<users, nextUserId, expenses, nextExpenseId, cache, owner,
                   created_at, clock, credentials>>

\* AuthPage.render_login_form, the Create Account button; and
\* AuthPage.render_register_form, the Back to Login button
ShowRegister(p, show) ==
    /\ IF show THEN AtLoginForm(p) ELSE AtRegisterForm(p)
    /\ session' = [session EXCEPT ![p] =
           [Started(p).session EXCEPT !.show_register = show]]
    /\ shown' = [shown EXCEPT ![p] = "rerun"]
    /\ view' = [view EXCEPT ![p] = NoView]
    /\ UNCHANGED <<users, nextUserId, expenses, nextExpenseId, cache, proc,
                   owner, created_at, clock, credentials>>

\* AuthPage.render_register_form, the Create Account button: create_user when
\* the fields are filled in and the two passwords are the same
Register(p, username, password, confirm_password, dbError) ==
    /\ AtRegisterForm(p)
    /\ nextUserId \in UserIds
    /\ \E salt \in Salts :
        LET filled == username # <<>> /\ password # <<>>
            res == IF ~filled
                   THEN [ok |-> FALSE, msg |-> "Please fill in all required fields",
                         users |-> users, nextUserId |-> nextUserId]
                   ELSE IF password # confirm_password
                   THEN [ok |-> FALSE, msg |-> "Passwords do not match",
                         users |-> users, nextUserId |-> nextUserId]
                   ELSE create_user(users, nextUserId, username, password, dbError)
        IN  /\ users' = res.users
            /\ nextUserId' = res.nextUserId
            /\ credentials' = Stored(res, password, salt)
            /\ session' = [session EXCEPT ![p] =
                   IF res.ok THEN [Started(p).session EXCEPT !.show_register = FALSE]
                   ELSE Started(p).session]
            /\ shown' = [shown EXCEPT ![p] = IF res.ok THEN "rerun" ELSE "register"]
            /\ proc' = [proc EXCEPT ![p] =
                   Called("create", 0, 0, res.ok, res.msg, "idle")]
    /\ view' = [view EXCEPT ![p] = NoView]
    /\ UNCHANGED <<expenses, nextExpenseId, cache, owner, created_at, clock>>

\* SmartSpendApp.render_navigation, a page button: the page is set and the
\* script runs again
Navigate(p, page) ==
    /\ AtNavigation(p)
    /\ session' = [session EXCEPT ![p] = [Started(p).session EXCEPT !.page = page]]
    /\ shown' = [shown EXCEPT ![p] = "rerun"]
    /\ view' = [view EXCEPT ![p] = NoView]
    /\ UNCHANGED <<users, nextUserId, expenses, nextExpenseId, cache, proc,
                   owner, created_at, clock, credentials>>

\* SmartSpendApp.render_navigation, the Logout button
Logout(p) ==
    /\ AtNavigation(p)
    /\ session' = [session EXCEPT ![p] = logout(Started(p).session)]
    /\ shown' = [shown EXCEPT ![p] = "rerun"]
    /\ view' = [view EXCEPT ![p] = NoView]
    /\ UNCHANGED <<users, nextUserId, expenses, nextExpenseId, cache, proc,
                   owner, created_at, clock, credentials>>

\* AddExpensePage.render, the Add Expense button: add_expense for the user of
\* the session; after a success the page clears the cache (CacheClear)
AddSubmit(p, category, amount, expense_date, description, dbError) ==
    /\ AtNavigation(p)
    /\ Started(p).session.page = "Add Expense"
    /\ nextExpenseId <= MaxExpenses
    /\ category # <<>> /\ amount > 0
    /\ LET res == add_expense(users, expenses, nextExpenseId, User(p), category,
                              amount, expense_date, description, dbError)
       IN  /\ expenses' = res.expenses
           /\ nextExpenseId' = res.nextExpenseId
           /\ owner' = IF res.ok THEN Append(owner, User(p)) ELSE owner
           /\ created_at' = IF res.ok THEN Append(created_at, clock) ELSE created_at
           /\ proc' = [proc EXCEPT ![p] =
                  Called("add", User(p), 0, res.ok, res.msg, AfterCall(TRUE, res.ok))]
    /\ session' = [session EXCEPT ![p] = Started(p).session]
    /\ shown' = [shown EXCEPT ![p] = "Add Expense"]
    /\ view' = [view EXCEPT ![p] = NoView]
    /\ UNCHANGED <<users, nextUserId, cache, clock, credentials>>

\* DeleteExpensePage.render, the Delete button: the page lists the expenses of
\* the session's user, and delete_expense is called for the one selected in
\* that list; after a success the page clears the cache (CacheClear) and the
\* script runs again
DeleteSubmit(p, expense_id, dbError) ==
    /\ AtNavigation(p)
    /\ Started(p).session.page = "Delete Expense"
    /\ \E selected \in Selected(User(p)) :
        LET listed == get_user_expenses(cache, selected, User(p), dbError)
            res == delete_expense(expenses, expense_id, User(p), dbError)
        IN  /\ \E i \in DOMAIN listed.rows : listed.rows[i].id = expense_id
            /\ cache' = listed.cache
            /\ expenses' = res.expenses
            /\ proc' = [proc EXCEPT ![p] =
                   Called("delete", User(p), expense_id, res.ok, res.msg,
                          AfterCall(TRUE, res.ok))]
            /\ shown' = [shown EXCEPT ![p] =
                   IF res.ok THEN "rerun" ELSE "Delete Expense"]
    /\ session' = [session EXCEPT ![p] = Started(p).session]
    /\ view' = [view EXCEPT ![p] = NoView]
    /\ UNCHANGED <<users, nextUserId, nextExpenseId, owner, created_at, clock,
                   credentials>>

Opt(S) == {None} \cup {Some(v) : v \in S}

----------------------------------------------------------------------------
\* Spec: one caller after another calls create_user, add_expense,
\* delete_expense and update_expense directly, for stored and for unknown users;
\* updates supply a category, an amount, both or nothing.

Next ==
    \/ CreateUser(RegisterName(nextUserId), StrongPassword, FALSE)
    \/ \E u \in UserIds, c \in CategoryInputs, a \in AmountInputs,
          d \in DateInputs, s \in DescriptionInputs :
           AddExpense("p1", u, c, a, d, s, FALSE, FALSE)
    \/ \E e \in ExpenseIds, u \in UserIds : DeleteExpense("p1", e, u, FALSE, FALSE)
    \/ \E e \in ExpenseIds, u \in UserIds, c \in Opt(NewCategoryInputs),
          a \in Opt(NewAmountInputs) :
           UpdateExpense("p1", e, u, c, a, None, None, FALSE)

Spec == Init /\ [][Next]_vars

\* ListSpec: the records are listed through the cache of get_user_expenses while
\* they are added, changed and deleted, from the pages (which clear the cache
\* after a success) and directly.

ListNext ==
    \/ CreateUser(RegisterName(nextUserId), StrongPassword, FALSE)
    \/ \E u \in UserIds, pg \in BOOLEAN :
           AddExpense("p1", u, Food, 10, 1, <<>>, pg, FALSE)
    \/ \E e \in ExpenseIds, u \in UserIds, pg \in BOOLEAN :
           DeleteExpense("p1", e, u, pg, FALSE)
    \/ \E e \in ExpenseIds, u \in UserIds :
           UpdateExpense("p1", e, u, None, Some(20), None, None, FALSE)
    \/ \E u \in UserIds : GetUserExpenses("p1", u, FALSE)
    \/ CacheClear("p1")
    \/ \E u \in UserIds : CacheExpire(u)

ListSpec == Init /\ [][ListNext]_vars

\* ReportSpec: one user adds records from the Add Expense page and looks at the
\* dashboard while time passes.

ReportNext ==
    \/ CreateUser(<<"a", "b", "c">>, StrongPassword, FALSE)
    \/ \E e \in ReportEntries, d \in ReportDates :
           AddExpense("p1", 1, e[1], e[2], d, <<>>, TRUE, FALSE)
    \/ CacheClear("p1")
    \/ Tick
    \/ DashboardRender("p1", 1, FALSE)

ReportSpec == Init /\ [][ReportNext]_vars

\* FieldSpec: update_expense with every combination of supplied fields, made
\* by the owner of the records and by another user.

FieldNext ==
    \/ CreateUser(<<"a", "b", "c">>, StrongPassword, FALSE)
    \/ \E d \in DateInputs, s \in DescriptionInputs :
           AddExpense("p1", 1, Food, 10, d, s, FALSE, FALSE)
    \/ \E e \in ExpenseIds, u \in UserIds, c \in Opt(NewCategoryInputs),
          a \in Opt(NewAmountInputs), d \in Opt(NewDateInputs),
          s \in Opt(NewDescriptionInputs) :
           UpdateExpense("p1", e, u, c, a, d, s, FALSE)

FieldSpec == Init /\ [][FieldNext]_vars

\* RaceSpec: the requests of two sessions of one user in flight together.

RaceNext ==
    \/ CreateUser(<<"a", "b", "c">>, StrongPassword, FALSE)
    \/ \E p \in Procs : AddExpense(p, 1, Food, 10, 1, <<>>, FALSE, FALSE)
    \/ \E p \in Procs, e \in ExpenseIds, pg \in BOOLEAN : DeleteCall(p, e, 1, pg)
    \/ \E p \in Procs, e \in ExpenseIds, pg \in BOOLEAN :
           DeleteExpense(p, e, 1, pg, FALSE)
    \/ \E p \in Procs : CacheClear(p)

RaceSpec == Init /\ [][RaceNext]_vars

\* One session of one user adds, updates and deletes from the pages and looks
\* at the dashboard, while any statement sent to the store can fail
FaultNext ==
    \/ CreateUser(<<"a", "b", "c">>, StrongPassword, FALSE)
    \/ \E e \in ReportEntries, dbError \in BOOLEAN :
           AddExpense("p1", 1, e[1], e[2], Today, <<>>, TRUE, dbError)
    \/ \E e \in ExpenseIds, dbError \in BOOLEAN :
           DeleteExpense("p1", e, 1, TRUE, dbError)
    \/ \E e \in ExpenseIds, dbError \in BOOLEAN :
           UpdateExpense("p1", e, 1, None, Some(20), None, None, dbError)
    \/ CacheClear("p1")
    \/ CacheExpire(1)
    \/ \E dbError \in BOOLEAN : DashboardRender("p1", 1, dbError)

FaultSpec == Init /\ [][FaultNext]_vars

\* Two sessions update and delete the expenses of user 1, as user 1 or as
\* user 2, each request and its statement being separate steps
MutateRaceNext ==
    \/ CreateUser(RegisterName(nextUserId), StrongPassword, FALSE)
    \/ AddExpense("p1", 1, Food, 10, 1, <<>>, FALSE, FALSE)
    \/ \E p \in Procs, e \in ExpenseIds, u \in UserIds : DeleteCall(p, e, u, FALSE)
    \/ \E p \in Procs, e \in ExpenseIds, u \in UserIds :
           DeleteExpense(p, e, u, FALSE, FALSE)
    \/ \E p \in Procs, e \in ExpenseIds, u \in UserIds : UpdateCall(p, e, u)
    \/ \E p \in Procs, e \in ExpenseIds, u \in UserIds :
           UpdateExpense(p, e, u, None, Some(20), Some(2), None, FALSE)

MutateRaceSpec == Init /\ [][MutateRaceNext]_vars

\* One session renders the dashboard, statement by statement, while another
\* adds expenses from the Add Expense page and the cache entry can expire
SnapshotNext ==
    \/ CreateUser(<<"a", "b", "c">>, StrongPassword, FALSE)
    \/ \E e \in ReportEntries :
           AddExpense("p2", 1, e[1], e[2], Today, <<>>, TRUE, FALSE)
    \/ CacheClear("p2")
    \/ CacheExpire(1)
    \/ DashboardFetch("p1", 1, FALSE)
    \/ DashboardSummary("p1", FALSE)

SnapshotSpec == Init /\ [][SnapshotNext]_vars

\* RegisterSpec: two sessions open the application, go to the register form
\* and back, and submit it, each submission a create_user call that the other
\* session's calls interleave with.
RegisterNext ==
    \/ \E p \in Procs : Open(p, FALSE)
    \/ \E p \in Procs, show \in BOOLEAN : ShowRegister(p, show)
    \/ \E p \in Procs, username \in RegisterNames, password \in RegisterPasswords :
           Register(p, username, password, password, FALSE)

RegisterSpec == Init /\ [][RegisterNext]_vars

\* The pages behind the navigation bar
Pages == {"Dashboard", "Add Expense", "View All", "Delete Expense"}

\* AppSpec: one session uses the application while the clock goes on: it
\* registers, logs in with the right and with a wrong password, goes from page
\* to page, adds and deletes expenses, logs out, and comes back after a pause.
AppNext ==
    \/ Tick
    \/ Open("p1", FALSE)
    \/ \E show \in BOOLEAN : ShowRegister("p1", show)
    \/ Register("p1", <<"a", "b", "c">>, StrongPassword, StrongPassword, FALSE)
    \/ \E password \in RegisterPasswords :
           Login("p1", <<"a", "b", "c">>, password, FALSE)
    \/ \E page \in Pages : Navigate("p1", page)
    \/ Logout("p1")
    \/ AddSubmit("p1", Food, 10, Today, <<>>, FALSE)
    \/ \E e \in ExpenseIds : DeleteSubmit("p1", e, FALSE)
    \/ CacheClear("p1")

AppSpec == Init /\ [][AppNext]_vars

----------------------------------------------------------------------------
\* Vocabulary of the properties

\* Ids of the expenses issued so far
IssuedIds == 1..Len(owner)

\* Ids issued and no longer in the table: the deleted expenses
DeletedIds == {i \in IssuedIds : ~\E r \in expenses : r.id = i}

\* The step is a call of get_user_expenses(user_id) by p
ListedBy(p, user_id) == GetUserExpenses(p, user_id, FALSE)

\* The rows that call returns
Listing(user_id) ==
    UNION {{df[i] : i \in DOMAIN df} :
              df \in {get_user_expenses(cache, selected, user_id, FALSE).rows :
                         selected \in Selected(user_id)}}

\* The step leaves p with an add_expense call of user_id, or with an
\* update_expense call of user_id on expense_id, as its latest call: what every
\* AddExpense and UpdateExpense step does; likewise for a delete_expense call
\* whose DELETE has run
AddBy(p, user_id) == proc'[p].op = "add" /\ proc'[p].user_id = user_id
UpdateBy(p, expense_id, user_id) ==
    /\ proc'[p].op = "update"
    /\ proc'[p].pc # "called"
    /\ proc'[p].expense_id = expense_id
    /\ proc'[p].user_id = user_id
DeleteBy(p, expense_id, user_id) ==
    /\ proc'[p].op = "delete"
    /\ proc'[p].pc # "called"
    /\ proc'[p].expense_id = expense_id
    /\ proc'[p].user_id = user_id

----------------------------------------------------------------------------
\* C1: row-level isolation.  In every step of every run: each stored record has
\* one id, one owner, the user it was inserted for, and keeps that owner; a
\* record that the step changes or removes is owned by the user_id the call of
\* that step was made with; a call that adds a record leaves the others alone;
\* and get_user_expenses(u) returns only records inserted for u.
RowLevelIsolation ==
    [][/\ \A r \in expenses' :
              /\ r.id \in 1..Len(owner') /\ owner'[r.id] = r.user_id
              /\ \A r2 \in expenses' : r2.id = r.id => r2 = r
       /\ \A r \in expenses, r2 \in expenses' :
              r2.id = r.id => r2.user_id = r.user_id
       /\ \A r \in expenses :
              r \notin expenses' =>
                  \E p \in Procs : /\ proc'[p].op \in {"update", "delete"}
                                   /\ proc'[p].user_id = r.user_id
                                   /\ proc'[p].expense_id = r.id
       /\ \A p \in Procs, u \in UserIds :
              ListedBy(p, u) => \A x \in Listing(u) : owner[x.id] = u
      ]_vars

\* Two users own a record each, and the latest call, an update by one of them
\* aimed at the record of the other, found nothing to update.
IsolationWitness ==
    \E p \in Procs, r \in expenses, r2 \in expenses :
        /\ r.user_id # r2.user_id
        /\ proc[p].op = "update"
        /\ proc[p].msg = MsgNotFound
        /\ proc[p].user_id = r.user_id
        /\ proc[p].expense_id = r2.id

----------------------------------------------------------------------------
\* C2: delete_expense(expense_id, user_id = A) on a record owned by another
\* user B fails with 'Expense not found or access denied' and leaves the table,
\* the targeted record included, as it was.
DeleteOfForeignRecordDenied ==
    [][\A p \in Procs, e \in ExpenseIds, u \in UserIds, pg \in BOOLEAN :
           (/\ DeleteBy(p, e, u)
            /\ \E r \in expenses : r.id = e /\ r.user_id # u
            /\ DeleteExpense(p, e, u, pg, FALSE))
           => /\ ~proc'[p].ok
              /\ proc'[p].msg = MsgNotFound
              /\ expenses' = expenses
      ]_vars

\* A delete by one user aimed at a record of another has been answered, and the
\* record is still there.
ForeignDeleteWitness ==
    \E p \in Procs, r \in expenses :
        /\ proc[p].op = "delete"
        /\ proc[p].msg = MsgNotFound
        /\ proc[p].expense_id = r.id
        /\ proc[p].user_id # r.user_id

----------------------------------------------------------------------------
\* C3: in every reachable state every stored expense has amount > 0.
AmountAlwaysPositive == \A r \in expenses : r.amount > 0

\* Records are stored, and the latest call was an update_expense refused for
\* its amount.
AmountWitness ==
    /\ expenses # {}
    /\ \E p \in Procs : proc[p].op = "update" /\ proc[p].msg = MsgAmount

----------------------------------------------------------------------------
\* C4: in every reachable state every stored expense has a category of the
\* closed enumeration.  update_expense writes any category it is given, so
\* this fails.
CategoryAlwaysInEnumeration == \A r \in expenses : r.category \in get_list

----------------------------------------------------------------------------
\* C5: add_expense with amount <= 0 is rejected with 'Amount must be greater
\* than zero' and inserts nothing: the table and the id counter are as before.
AddRejectsNonPositiveAmount ==
    [][\A p \in Procs, u \in UserIds, c \in CategoryInputs, a \in AmountInputs,
          d \in DateInputs, s \in DescriptionInputs, pg \in BOOLEAN :
           (a <= 0 /\ AddBy(p, u) /\ AddExpense(p, u, c, a, d, s, pg, FALSE))
           => /\ ~proc'[p].ok
              /\ proc'[p].msg = MsgAmount
              /\ expenses' = expenses
              /\ nextExpenseId' = nextExpenseId
      ]_vars

\* The latest call was an add_expense refused for its amount, made on a table
\* that holds records.
AddAmountWitness ==
    /\ expenses # {}
    /\ \E p \in Procs : proc[p].op = "add" /\ proc[p].msg = MsgAmount

----------------------------------------------------------------------------
\* C6 as stated: add_expense with amount > 0 and a category outside the
\* enumeration is rejected with 'Invalid category' and inserts nothing; with
\* amount > 0 and a category of the enumeration it inserts exactly one new
\* record owned by user_id and reports success.
AddInsertsForAnyUser ==
    [][\A p \in Procs, u \in UserIds, c \in CategoryInputs, a \in AmountInputs,
          d \in DateInputs, s \in DescriptionInputs, pg \in BOOLEAN :
           (a > 0 /\ AddBy(p, u) /\ AddExpense(p, u, c, a, d, s, pg, FALSE))
           => IF c \notin get_list
              THEN /\ ~proc'[p].ok
                   /\ proc'[p].msg = MsgCategory
                   /\ expenses' = expenses
              ELSE /\ proc'[p].ok
                   /\ proc'[p].msg = MsgAdded
                   /\ \E r \in expenses' :
                          /\ r \notin expenses
                          /\ r.user_id = u
                          /\ expenses' = expenses \cup {r}
      ]_vars

\* C6 as amended: the same, where the insertion is made for a user_id that is the
\* id of a stored user; for any other user_id the INSERT breaks the foreign key
\* of expenses.user_id, add_expense reports 'Error adding expense' and inserts
\* nothing.
AddInsertsForStoredUser ==
    [][\A p \in Procs, u \in UserIds, c \in CategoryInputs, a \in AmountInputs,
          d \in DateInputs, s \in DescriptionInputs, pg \in BOOLEAN :
           (a > 0 /\ AddBy(p, u) /\ AddExpense(p, u, c, a, d, s, pg, FALSE))
           => IF c \notin get_list
              THEN /\ ~proc'[p].ok
                   /\ proc'[p].msg = MsgCategory
                   /\ expenses' = expenses
              ELSE IF \E x \in users : x.id = u
              THEN /\ proc'[p].ok
                   /\ proc'[p].msg = MsgAdded
                   /\ \E r \in expenses' :
                          /\ r \notin expenses
                          /\ r.user_id = u
                          /\ r.id \notin {x.id : x \in expenses}
                          /\ expenses' = expenses \cup {r}
              ELSE /\ ~proc'[p].ok
                   /\ proc'[p].msg = MsgAddError
                   /\ expenses' = expenses
      ]_vars

\* The latest call was a successful add_expense and the record it inserted, the
\* one with the latest id, is owned by the user_id of the call.
AddInsertedWitness ==
    \E p \in Procs, r \in expenses :
        /\ proc[p].op = "add"
        /\ proc[p].ok
        /\ r.id = nextExpenseId - 1
        /\ r.user_id = proc[p].user_id

----------------------------------------------------------------------------
\* C7 as stated: in every reachable state, update_expense fails with 'Expense
\* not found or access denied' whenever no record with that id is owned by
\* user_id, whatever fields are supplied, and leaves the table unchanged.
UpdateOfMissingAlwaysNotFound ==
    \A e \in ExpenseIds, u \in UserIds, c \in Opt(NewCategoryInputs),
       a \in Opt(NewAmountInputs), d \in Opt(NewDateInputs),
       s \in Opt(NewDescriptionInputs) :
        (~\E r \in expenses : r.id = e /\ r.user_id = u)
        => LET res == update_expense(users, expenses, e, u, c, a, d, s, FALSE)
           IN  /\ ~res.ok
               /\ res.msg = MsgNotFound
               /\ res.expenses = expenses

\* C7 as amended: in every reachable state, when no record with that id is owned
\* by user_id, update_expense fails and leaves the table unchanged; the result
\* is 'Amount must be greater than zero' if an amount <= 0 is supplied, else 'No
\* updates provided' if no field is supplied, else 'Expense not found or access
\* denied'.
UpdateOfMissingFails ==
    \A e \in ExpenseIds, u \in UserIds, c \in Opt(NewCategoryInputs),
       a \in Opt(NewAmountInputs), d \in Opt(NewDateInputs),
       s \in Opt(NewDescriptionInputs) :
        (~\E r \in expenses : r.id = e /\ r.user_id = u)
        => LET res == update_expense(users, expenses, e, u, c, a, d, s, FALSE)
           IN  /\ ~res.ok
               /\ res.expenses = expenses
               /\ res.msg =
                      IF a # None /\ a[1] <= 0 THEN MsgAmount
                      ELSE IF c = None /\ a = None /\ d = None /\ s = None
                      THEN MsgNoUpdates
                      ELSE MsgNotFound

\* The latest call was an update by a user who does not own the record with the
\* id it names, which another user owns, and it was answered 'not found'.
UpdateMissingWitness ==
    \E p \in Procs, r \in expenses :
        /\ proc[p].op = "update"
        /\ proc[p].msg = MsgNotFound
        /\ proc[p].expense_id = r.id
        /\ proc[p].user_id # r.user_id

----------------------------------------------------------------------------
----------------------------------------------------------------------------
\* C9: delete_expense is a hard delete.  In every step of every run: a
\* delete_expense reports success exactly when it removes one row, the one with
\* the given id and owner, and otherwise answers 'Expense not found or access
\* denied' and removes nothing; a deleted expense stays out of the table and its
\* id is not issued again; a later delete_expense or update_expense on a deleted
\* id answers 'Expense not found or access denied'; and no get_user_expenses
\* returns a deleted expense.  The last part fails: get_user_expenses answers
\* from its cache, which delete_expense leaves as it is.
HardDelete ==
    [][/\ \A p \in Procs, e \in ExpenseIds, u \in UserIds, pg \in BOOLEAN :
              (DeleteBy(p, e, u) /\ DeleteExpense(p, e, u, pg, FALSE))
              => /\ proc'[p].ok <=>
                        \E r \in expenses : /\ r.id = e /\ r.user_id = u
                                            /\ expenses' = expenses \ {r}
                 /\ proc'[p].ok => e \in DeletedIds'
                 /\ ~proc'[p].ok => /\ proc'[p].msg = MsgNotFound
                                    /\ expenses' = expenses
                 /\ e \in DeletedIds => proc'[p].msg = MsgNotFound
       /\ \A p \in Procs, e \in ExpenseIds, u \in UserIds :
              (/\ UpdateBy(p, e, u)
               /\ e \in DeletedIds
               /\ UpdateExpense(p, e, u, None, Some(20), None, None, FALSE))
              => ~proc'[p].ok /\ proc'[p].msg = MsgNotFound
       /\ DeletedIds \subseteq DeletedIds'
       /\ \A p \in Procs, u \in UserIds :
              ListedBy(p, u) => \A x \in Listing(u) : x.id \notin DeletedIds
      ]_vars

----------------------------------------------------------------------------
\* C10: two requests of one owner to delete the same record, both made while
\* the record is stored.  Once both are answered, exactly one has reported
\* success, the other has answered 'Expense not found or access denied', and the
\* record is gone; the DELETE of a request runs once, after which the request is
\* over, and it removes no record but the one the request names.
ConcurrentDeleteOneWinner ==
    [][/\ \A p \in Procs, e \in ExpenseIds, pg \in BOOLEAN :
              (DeleteBy(p, e, 1) /\ DeleteExpense(p, e, 1, pg, FALSE))
              => /\ proc'[p].pc # "called"
                 /\ expenses' \subseteq expenses
                 /\ \A r \in expenses \ expenses' : r.id = e
                 /\ proc'[p].ok <=> expenses' # expenses
       /\ \A e \in ExpenseIds :
              (\A p \in Procs : /\ proc'[p].op = "delete"
                                /\ proc'[p].pc # "called"
                                /\ proc'[p].expense_id = e
                                /\ proc'[p].present)
              => /\ \E p \in Procs :
                        /\ proc'[p].ok
                        /\ \A q \in Procs \ {p} :
                               ~proc'[q].ok /\ proc'[q].msg = MsgNotFound
                 /\ ~\E r \in expenses' : r.id = e
      ]_vars

\* Both requests, made while the record was stored, have been answered and
\* another record is stored.
RaceWitness ==
    /\ expenses # {}
    /\ \E e \in ExpenseIds :
           \A p \in Procs : /\ proc[p].op = "delete"
                            /\ proc[p].pc # "called"
                            /\ proc[p].expense_id = e
                            /\ proc[p].present

----------------------------------------------------------------------------
\* Vocabulary of the properties of the dashboard

\* The callers with a dashboard on the screen, and those whose dashboard shows
\* a summary
Dashboards == {p \in Procs : view[p].rendered}
Summaries == {p \in Dashboards : view[p].summary # None}

\* The summary on the dashboard of p
SummaryOf(p) == view[p].summary[1]

\* The records user_id has in the store
RecordsOf(user_id) == {r \in expenses : r.user_id = user_id}

----------------------------------------------------------------------------
\* C11: a dashboard computed for an owner who has no expense records, or from
\* a listing without rows, shows no summary (get_expense_summary returned
\* None); and a summary that is shown is never one of zeros: it counts at least
\* one record and its total is above zero.
NoSummaryWithoutRecords ==
    /\ \A p \in Dashboards :
           (RecordsOf(view[p].user_id) = {} \/ view[p].df = <<>>)
           => view[p].summary = None
    /\ \A p \in Summaries :
           SummaryOf(p).expense_count >= 1 /\ SummaryOf(p).total_expenses > 0

\* A registered user without records looks at the dashboard: no summary.
NoSummaryWitness ==
    /\ users # {}
    /\ \E p \in Dashboards :
           /\ proc[p].op = "dashboard"
           /\ RecordsOf(view[p].user_id) = {}
           /\ view[p].summary = None

----------------------------------------------------------------------------
\* The sum of the amounts of a set of records
RECURSIVE TotalOf(_)
TotalOf(records) ==
    IF records = {} THEN 0
    ELSE LET r == CHOOSE x \in records : TRUE
         IN  r.amount + TotalOf(records \ {r})

\* C12: a summary on a dashboard counts the owner's records, totals their
\* amounts, has total_expenses / expense_count as its average and the largest
\* of the amounts as its largest expense.
SummaryCountsAndTotals ==
    \A p \in Summaries :
        LET records == RecordsOf(view[p].user_id)
            summary == SummaryOf(p)
        IN  /\ summary.expense_count = Cardinality(records)
            /\ summary.total_expenses = TotalOf(records)
            /\ summary.average_expense.den # 0
            /\ summary.average_expense.num * summary.expense_count
                   = summary.total_expenses * summary.average_expense.den
            /\ \E r \in records : r.amount = summary.largest_expense
            /\ \A r \in records : r.amount <= summary.largest_expense

\* A summary of two records of different amounts
SummaryTotalsWitness ==
    \E p \in Summaries :
        /\ SummaryOf(p).expense_count = 2
        /\ SummaryOf(p).total_expenses = 30
        /\ SummaryOf(p).largest_expense = 20

\* C13: in a summary the total of the current month is at most the total, and
\* the total of the last 7 days is at most that of the last 30 days, which is
\* at most the total.
WindowTotalsOrdered ==
    \A p \in Summaries :
        /\ SummaryOf(p).monthly_expenses <= SummaryOf(p).total_expenses
        /\ SummaryOf(p).last_7_days <= SummaryOf(p).last_30_days
        /\ SummaryOf(p).last_30_days <= SummaryOf(p).total_expenses

\* A summary in which the three inequalities are strict
WindowTotalsWitness ==
    \E p \in Summaries :
        /\ SummaryOf(p).monthly_expenses < SummaryOf(p).total_expenses
        /\ SummaryOf(p).last_7_days < SummaryOf(p).last_30_days
        /\ 0 < SummaryOf(p).last_7_days

\* C14: the daily average of a summary is 0 when the total of the last 30 days
\* is 0, and that total divided by 30 otherwise.
DailyAverageOfThirtyDays ==
    \A p \in Summaries :
        LET summary == SummaryOf(p)
        IN  /\ summary.daily_average.den # 0
            /\ summary.last_30_days = 0 => summary.daily_average.num = 0
            /\ summary.last_30_days # 0 =>
                   summary.daily_average.num * 30
                       = summary.last_30_days * summary.daily_average.den

\* A summary with nothing in the last 30 days, and one with something
DailyAverageZeroWitness ==
    \E p \in Summaries :
        SummaryOf(p).last_30_days = 0 /\ SummaryOf(p).daily_average.num = 0
DailyAverageWitness ==
    \E p \in Summaries :
        SummaryOf(p).last_30_days > 0 /\ SummaryOf(p).daily_average.num > 0

\* C15: the trailing windows are inclusive by calendar day: whatever the time
\* of day of the reference instant, last_7_days is the total of the records
\* dated 7 days before the reference date or later, last_30_days that of the
\* records dated 30 days before it or later, and each of the latter has its day
\* in the daily series.
TrailingWindowsInclusiveByDay ==
    \A p \in Summaries :
        LET records == RecordsOf(view[p].user_id)
            Within(n) ==
                {r \in records : to_datetime(r.date).day >= view[p].now.day - n}
            daily == view[p].daily[1]
        IN  /\ SummaryOf(p).last_7_days = TotalOf(Within(7))
            /\ SummaryOf(p).last_30_days = TotalOf(Within(30))
            /\ \A r \in Within(30) :
                   \E i \in DOMAIN daily : daily[i].date = to_datetime(r.date).day

\* C16: the top category of a summary is a category with the highest number of
\* records, and among several of them the one that comes first, be it in the
\* order the records were inserted or in the order of the rows of the listing.
TopCategoryFirstSeen ==
    \A p \in Summaries :
        LET df == view[p].df
            top == SummaryOf(p).top_category
            Most(c) == \A k \in DOMAIN df :
                           Occurrences(df, df[k].category) <= Occurrences(df, c)
            FirstRow(c) == CHOOSE i \in DOMAIN df :
                               /\ df[i].category = c
                               /\ \A j \in 1..(i - 1) : df[j].category # c
            FirstId(c) == CHOOSE id \in {df[i].id : i \in DOMAIN df} :
                              /\ \E i \in DOMAIN df : df[i].id = id /\ df[i].category = c
                              /\ \A i \in DOMAIN df : df[i].category = c => id <= df[i].id
            tied == {df[i].category : i \in {j \in DOMAIN df : Most(df[j].category)}}
        IN  /\ top \in tied
            /\ \/ \A c \in tied : FirstRow(top) <= FirstRow(c)
               \/ \A c \in tied : FirstId(top) <= FirstId(c)

----------------------------------------------------------------------------
\* The entries of a series as a set
Entries(series) == {series[i] : i \in DOMAIN series}

\* C17: the timeline on a dashboard has the owner's records, each once, by
\* ascending date; the running total of a row is the sum of the amounts up to
\* and including it; and the last running total is the total_expenses of the
\* summary of the same dashboard.
TimelineIsPrefixSum ==
    \A p \in Summaries :
        LET records == RecordsOf(view[p].user_id)
            timeline == view[p].timeline[1]
        IN  /\ Len(timeline) = Cardinality(records)
            /\ \A r \in records :
                   \E i \in DOMAIN timeline :
                       /\ timeline[i].id = r.id
                       /\ timeline[i].amount = r.amount
                       /\ timeline[i].date = to_datetime(r.date)
            /\ \A i \in DOMAIN timeline, j \in DOMAIN timeline :
                   i < j => ~Before(timeline[j].date, timeline[i].date)
            /\ \A i \in DOMAIN timeline :
                   timeline[i].cumulative_amount
                       = TotalOf({timeline[k] : k \in 1..i})
            /\ timeline[Len(timeline)].cumulative_amount
                   = SummaryOf(p).total_expenses

\* A timeline of two records of different dates, inserted later date first
TimelineWitness ==
    \E p \in Summaries :
        LET timeline == view[p].timeline[1]
        IN  /\ Len(timeline) = 2
            /\ Before(timeline[1].date, timeline[2].date)
            /\ timeline[1].id > timeline[2].id
            /\ timeline[2].cumulative_amount = 30

\* C18: records of the same date are in the timeline in the order in which
\* they were inserted.
TimelineSameDateInsertionOrder ==
    \A p \in Summaries :
        LET timeline == view[p].timeline[1]
        IN  \A i \in DOMAIN timeline, j \in DOMAIN timeline :
                (i < j /\ timeline[i].date = timeline[j].date)
                => timeline[i].id < timeline[j].id

\* C19: the monthly series on a dashboard has one entry for each calendar
\* month of a year in which the owner has a record, with the sum of the
\* amounts and the number of the records of that month; the entries are by
\* ascending month; and their amounts sum to the total_expenses of the summary.
MonthlySeriesByMonth ==
    \A p \in Summaries :
        LET records == RecordsOf(view[p].user_id)
            monthly == view[p].monthly[1]
            MonthOf(r) == to_period_M(to_datetime(r.date))
            InMonth(m) == {r \in records : MonthOf(r) = m}
        IN  /\ {monthly[i].date : i \in DOMAIN monthly}
                   = {MonthOf(r) : r \in records}
            /\ \A i \in DOMAIN monthly :
                   /\ monthly[i].amount = TotalOf(InMonth(monthly[i].date))
                   /\ monthly[i].id = Cardinality(InMonth(monthly[i].date))
            /\ \A i \in DOMAIN monthly, j \in DOMAIN monthly :
                   i < j =>
                       \/ monthly[i].date.year < monthly[j].date.year
                       \/ /\ monthly[i].date.year = monthly[j].date.year
                          /\ monthly[i].date.month < monthly[j].date.month
            /\ TotalOf(Entries(monthly)) = SummaryOf(p).total_expenses

\* A series of December 2024 and January 2025, the records inserted January
\* first
MonthlySeriesWitness ==
    \E p \in Summaries :
        LET monthly == view[p].monthly[1]
        IN  /\ Len(monthly) = 2
            /\ monthly[1].date = [year |-> 2024, month |-> 12]
            /\ monthly[2].date = [year |-> 2025, month |-> 1]
            /\ \E r \in RecordsOf(view[p].user_id) :
                   r.id = 1 /\ to_datetime(r.date).day = Today

\* C20: the pie and the bar series on a dashboard have one entry for each
\* category the owner has a record of, with the sum of the amounts of that
\* category; the pie series is by descending total and the bar series by
\* ascending total; and the two have the same entries.
CategorySeriesByTotal ==
    \A p \in Summaries :
        LET records == RecordsOf(view[p].user_id)
            pie == view[p].pie[1]
            bar == view[p].bar[1]
            present == {r.category : r \in records}
            OfCategory(c) == {r \in records : r.category = c}
        IN  /\ Entries(pie)
                   = {[category |-> c, amount |-> TotalOf(OfCategory(c))] : c \in present}
            /\ Len(pie) = Cardinality(present)
            /\ Len(bar) = Cardinality(present)
            /\ Entries(bar) = Entries(pie)
            /\ \A i \in DOMAIN pie, j \in DOMAIN pie :
                   i < j => pie[i].amount >= pie[j].amount
            /\ \A i \in DOMAIN bar, j \in DOMAIN bar :
                   i < j => bar[i].amount <= bar[j].amount

\* Two categories of different totals: the two series are each other's reverse
CategorySeriesWitness ==
    \E p \in Summaries :
        /\ Len(view[p].pie[1]) = 2
        /\ view[p].pie[1][1].amount > view[p].pie[1][2].amount
        /\ view[p].bar[1][1] = view[p].pie[1][2]
        /\ view[p].bar[1][2] = view[p].pie[1][1]

\* C21: the daily series on a dashboard has entries only for days within the
\* 30 days before the reference time; an entry holds the sum of the amounts of
\* the owner's records of its day; every record dated later than 30 days
\* before the reference date has its day in the series; the entries are by
\* ascending day; and the series is empty when no record is dated 30 days
\* before the reference date or later.
DailySeriesWithinWindow ==
    \A p \in Summaries :
        LET records == RecordsOf(view[p].user_id)
            daily == view[p].daily[1]
            DayOf(r) == to_datetime(r.date).day
            first_day == view[p].now.day - 30
        IN  /\ \A i \in DOMAIN daily :
                   /\ daily[i].date >= first_day
                   /\ \E r \in records : DayOf(r) = daily[i].date
                   /\ daily[i].amount
                          = TotalOf({r \in records : DayOf(r) = daily[i].date})
            /\ \A r \in records :
                   DayOf(r) > first_day =>
                       \E i \in DOMAIN daily : daily[i].date = DayOf(r)
            /\ \A i \in DOMAIN daily, j \in DOMAIN daily :
                   i < j => daily[i].date < daily[j].date
            /\ (\A r \in records : DayOf(r) < first_day) => daily = <<>>

\* A series of one day while the owner has a second, older record outside the
\* window
DailySeriesWitness ==
    \E p \in Summaries :
        /\ Len(view[p].daily[1]) = 1
        /\ \E r \in RecordsOf(view[p].user_id) :
               to_datetime(r.date).day < view[p].now.day - 30

\* No chart: the one record of the owner is older than the window
DailySeriesEmptyWitness ==
    \E p \in Summaries :
        /\ view[p].daily[1] = <<>>
        /\ \A r \in RecordsOf(view[p].user_id) :
               to_datetime(r.date).day < view[p].now.day - 30

\* The dashboards that show the metric cards and the charts
WithCharts == {p \in Summaries : view[p].df # <<>>}

\* C22: on every dashboard that shows cards and charts the summary and the
\* charts are of the same snapshot: the count and the total of the summary are
\* those of the rows charted, and the last running total of the timeline is
\* the total on the cards.
DashboardOfOneSnapshot ==
    \A p \in WithCharts :
        /\ SummaryOf(p).expense_count = Len(view[p].df)
        /\ SummaryOf(p).total_expenses = SumAmount(view[p].df)
        /\ LET timeline == view[p].timeline[1]
           IN  timeline[Len(timeline)].cumulative_amount
                   = SummaryOf(p).total_expenses

\* C23: whatever add_expense, update_expense and delete_expense calls have
\* succeeded, the next get_user_expenses of an owner returns the owner's
\* records as they are in the store, and the next get_expense_summary is the
\* summary of those records: neither is made of an earlier cached snapshot.
\* Stated of the states in which every call has returned and no page is about
\* to clear the cache.
ReadsReflectMutations ==
    (\A p \in Procs : proc[p].pc = "idle") =>
    \A user_id \in UserIds :
        \A selected \in Selected(user_id) :
            LET df == get_user_expenses(cache, selected, user_id, FALSE).rows
                summary == get_expense_summary(df, clock)
                records == RecordsOf(user_id)
            IN  /\ {[id |-> df[i].id, category |-> df[i].category,
                      amount |-> df[i].amount, date |-> df[i].date,
                      description |-> df[i].description] : i \in DOMAIN df}
                       = {[id |-> r.id, category |-> r.category,
                           amount |-> r.amount, date |-> to_datetime(r.date),
                           description |-> r.description] : r \in records}
                /\ Len(df) = Cardinality(records)
                /\ records = {} <=> summary = None
                /\ summary # None =>
                       /\ summary[1].expense_count = Cardinality(records)
                       /\ summary[1].total_expenses = TotalOf(records)

\* C24: what delete_expense and update_expense answer does not tell a record
\* of another user from a record that does not exist.  In every state, for
\* every record, every user who is not its owner and every choice of fields,
\* the calls on the record's id return the same success flag and message as
\* they would were the record not in the table, and both leave the table as it
\* is.
NoExistenceLeak ==
    \A r \in expenses :
    \A u \in UserIds \ {r.user_id}, dbError \in BOOLEAN :
        LET without == expenses \ {r}
            there == delete_expense(expenses, r.id, u, dbError)
            absent == delete_expense(without, r.id, u, dbError)
        IN  /\ there.ok = absent.ok
            /\ there.msg = absent.msg
            /\ there.expenses = expenses
            /\ absent.expenses = without
            /\ \A c \in Opt(NewCategoryInputs), a \in Opt(NewAmountInputs),
                  d \in Opt(NewDateInputs), s \in Opt(NewDescriptionInputs) :
                   LET uthere == update_expense(users, expenses, r.id, u,
                                                 c, a, d, s, dbError)
                       uabsent == update_expense(users, without, r.id, u,
                                                 c, a, d, s, dbError)
                   IN  /\ uthere.ok = uabsent.ok
                       /\ uthere.msg = uabsent.msg
                       /\ uthere.expenses = expenses
                       /\ uabsent.expenses = without

\* A user has asked to update a record of another user and has been answered
\* 'Expense not found or access denied', while an earlier expense is deleted
NoExistenceLeakWitness ==
    \E p \in Procs, r \in expenses :
        /\ proc[p].op = "update"
        /\ proc[p].expense_id = r.id
        /\ proc[p].user_id # r.user_id
        /\ proc[p].user_id \in {u.id : u \in users}
        /\ proc[p].msg = MsgNotFound
        /\ DeletedIds # {}

\* C25: a failure of the store is shown to the caller as a failure.  The
\* dashboard of an owner with expenses, rendered while the SELECT of
\* get_user_expenses fails, is not the screen of an owner without expenses; and
\* an add_expense, update_expense or
\* delete_expense whose statement fails reports failure and leaves the table as
\* it was.
StoreFailuresSurfaced ==
    [][/\ \A p \in Procs, u \in UserIds :
              (/\ RecordsOf(u) # {}
               /\ ~cache[u].valid
               /\ DashboardRender(p, u, TRUE))
              => view'[p] \notin render(u, <<>>, None, clock)
       /\ \A p \in Procs, e \in ReportEntries :
              AddExpense(p, 1, e[1], e[2], Today, <<>>, TRUE, TRUE)
              => /\ ~proc'[p].ok
                 /\ proc'[p].msg = MsgAddError
                 /\ expenses' = expenses
       /\ \A p \in Procs, e \in ExpenseIds :
              (DeleteBy(p, e, 1) /\ DeleteExpense(p, e, 1, TRUE, TRUE))
              => /\ ~proc'[p].ok
                 /\ proc'[p].msg = MsgDeleteError
                 /\ expenses' = expenses
       /\ \A p \in Procs, e \in ExpenseIds :
              (/\ UpdateBy(p, e, 1)
               /\ UpdateExpense(p, e, 1, None, Some(20), None, None, TRUE))
              => /\ ~proc'[p].ok
                 /\ proc'[p].msg = MsgUpdateError
                 /\ expenses' = expenses
      ]_vars

\* C26: update_expense and delete_expense check the owner and change the table
\* in one step.  In every interleaving of their requests on the same records:
\* a call reports success exactly when the record with the given id and owner
\* is in the table at the step in which the statement runs; a successful
\* update replaces that record by the one with all the supplied fields and a
\* successful delete removes it, and nothing else changes; a failed call
\* changes nothing; a deleted expense never comes back; and every record in
\* the table has either all the supplied fields of the update or none.
MutationsAtomic ==
    [][/\ \A p \in Procs, e \in ExpenseIds, u \in UserIds :
              (/\ UpdateBy(p, e, u)
               /\ UpdateExpense(p, e, u, None, Some(20), Some(2), None, FALSE))
              => /\ proc'[p].ok <=> \E r \in expenses : r.id = e /\ r.user_id = u
                 /\ proc'[p].ok =>
                        \E r \in expenses :
                            /\ r.id = e /\ r.user_id = u
                            /\ expenses' = (expenses \ {r}) \cup
                                   {[r EXCEPT !.amount = 20, !.date = isoformat(2)]}
                 /\ ~proc'[p].ok => expenses' = expenses
       /\ \A p \in Procs, e \in ExpenseIds, u \in UserIds :
              (DeleteBy(p, e, u) /\ DeleteExpense(p, e, u, FALSE, FALSE))
              => /\ proc'[p].ok <=> \E r \in expenses : r.id = e /\ r.user_id = u
                 /\ proc'[p].ok =>
                        \E r \in expenses :
                            /\ r.id = e /\ r.user_id = u
                            /\ expenses' = expenses \ {r}
                 /\ ~proc'[p].ok => expenses' = expenses
       /\ DeletedIds \subseteq DeletedIds'
       /\ \A r \in expenses' : r.amount = 20 <=> r.date = isoformat(2)
      ]_vars

\* An update requested while the record was there has run after another
\* session deleted the record: it has answered 'Expense not found or access
\* denied' and the record has stayed deleted
MutationsAtomicWitness ==
    \E p \in Procs :
        /\ proc[p].op = "update"
        /\ proc[p].pc = "idle"
        /\ proc[p].present
        /\ ~proc[p].ok
        /\ proc[p].msg = MsgNotFound
        /\ proc[p].expense_id \in DeletedIds

Taken(username) == \E u \in users : u.username = strip(username)

\* The username and the password pass create_user's validation
Valid(username, password) ==
    /\ validate_username(strip(username)).ok
    /\ validate_password_strength(password).ok

\* C30 as stated: whenever the stripped username already exists, create_user
\* fails with 'Username already exists' and leaves the users table unchanged.
ExistingNameAlwaysReported ==
    \A username \in RegisterNames, password \in RegisterPasswords :
        LET res == create_user(users, nextUserId, username, password, FALSE)
        IN  Taken(username) =>
                ~res.ok /\ res.msg = MsgUserExists /\ res.users = users

\* C30: no two stored users have the same username, and every stored username
\* is stripped; a create_user whose username or password fails validation
\* fails with the validation message and inserts no user, also when the
\* stripped username already exists; a create_user that passes validation and
\* whose stripped username already exists fails with 'Username already
\* exists' and leaves the users table unchanged.
UsernamesUnique ==
    /\ \A u1 \in users, u2 \in users : u1.username = u2.username => u1 = u2
    /\ \A u \in users : strip(u.username) = u.username
    /\ \A username \in RegisterNames, password \in RegisterPasswords :
           LET res == create_user(users, nextUserId, username, password, FALSE)
           IN  /\ ~Valid(username, password) =>
                      /\ ~res.ok /\ res.users = users
                      /\ res.msg \in {MsgUsernameShort, MsgUsernameChars,
                                      MsgPasswordShort, MsgPasswordUpper,
                                      MsgPasswordLower, MsgPasswordDigit}
               /\ Valid(username, password) /\ Taken(username) =>
                      ~res.ok /\ res.msg = MsgUserExists /\ res.users = users

\* One session has registered a name, and the other session's submission of
\* the same name, padded or not, has been refused as already existing, while
\* a further name was registered
UsernamesUniqueWitness ==
    /\ Cardinality(users) = 2
    /\ \E p \in Procs :
           /\ proc[p].op = "create"
           /\ ~proc[p].ok
           /\ proc[p].msg = MsgUserExists

\* The step is a script run of session p that changes what the session holds
\* or shows
RunOf(p) ==
    \/ session'[p] # session[p]
    \/ shown'[p] # shown[p]
    \/ view'[p] # view[p]

\* The step is a call of an expense operation by p
IssuedBy(p) ==
    /\ proc'[p] # proc[p]
    /\ proc'[p].op \in {"add", "delete", "list", "dashboard"}

\* C28: an expense page is on the screen of a session only while the
\* session's user_id is not None, and an expense operation is issued only by
\* an authenticated session, for the session's user; user_id goes from None
\* to a value only in a login whose authenticate_user call returns that
\* value; a logout leaves user_id None, username None and the page Dashboard,
\* and a run of a session that is not authenticated renders the
\* authentication page.
AuthenticatedOnly ==
    /\ [](\A p \in Procs :
             (shown[p] \in Pages \/ view[p] # NoView) =>
                 is_authenticated(session[p]))
    /\ [][\A p \in Procs :
             /\ IssuedBy(p) =>
                    /\ is_authenticated(session[p])
                    /\ proc'[p].user_id = session[p].user_id[1]
             /\ (~is_authenticated(session[p]) /\ is_authenticated(session'[p])) =>
                    \E username \in RegisterNames, password \in RegisterPasswords :
                        /\ Login(p, username, password, FALSE)
                        /\ session'[p].user_id =
                               authenticate_user(users, credentials, username,
                                                 password, FALSE)
             /\ Logout(p) =>
                    /\ session'[p].user_id = None
                    /\ session'[p].username = None
                    /\ session'[p].page = "Dashboard"
             /\ (~is_authenticated(session[p]) /\ Open(p, FALSE)) =>
                    shown'[p] \in {"login", "register"}]_vars

\* A session that added an expense, logged out, and is shown the login form
AuthenticatedOnlyWitness ==
    \E p \in Procs :
        /\ proc[p].op = "add"
        /\ proc[p].ok
        /\ ~is_authenticated(session[p])
        /\ session[p].username = None
        /\ session[p].page = "Dashboard"
        /\ shown[p] = "login"

\* C29: a run that starts with an authenticated session whose last_activity
\* is more than 30 minutes in the past logs the session out, renders no page
\* of the navigation bar and issues no operation; a run that starts with an
\* authenticated session whose last_activity is 30 minutes or less in the
\* past sets last_activity to the current time, and the session stays
\* authenticated unless the run is the click on Logout.
SessionTimeout ==
    [][\A p \in Procs :
          (is_authenticated(session[p]) /\ RunOf(p)) =>
              IF Elapsed(session[p].last_activity, clock) > SESSION_TIMEOUT_MINUTES
              THEN /\ session'[p].user_id = None
                   /\ session'[p].username = None
                   /\ shown'[p] \notin Pages
                   /\ view'[p] = NoView
                   /\ UNCHANGED <<expenses, cache, proc>>
              ELSE /\ session'[p].last_activity = clock
                   /\ is_authenticated(session'[p]) \/ Logout(p)]_vars

\* A session that was logged out because it had timed out
SessionTimeoutWitness ==
    \E p \in Procs :
        /\ shown[p] = "Session expired"
        /\ ~is_authenticated(session[p])
        /\ Elapsed(session[p].last_activity, clock) > SESSION_TIMEOUT_MINUTES

====
